---------------------------- MODULE Spec2Model ----------------------------
(***************************************************************************)
(* A model of the diep.io party-link cog of Chiaki-Nanami                  *)
(* (src/cogs/diepio/partylink.py).                                         *)
(*                                                                         *)
(* Python strings are modelled as sequences of one-character strings, so   *)
(* that the regular expressions, int(s, 16) and the string methods of the  *)
(* source can be computed character by character.  Python's unbounded      *)
(* integers are modelled by their base-16 digits (most significant first,  *)
(* no leading zero), because an IPv4 address does not fit TLC's integers.  *)
(*                                                                         *)
(* A Python function that binds a local and then tests it is written as a  *)
(* pair of operators, the second taking the local as its parameter.        *)
(***************************************************************************)
EXTENDS Integers, Sequences, FiniteSets, TLC

VARIABLES
    op,            \* pure-function specifications: the function last applied
    inp,           \* pure-function specifications: its argument
    out,           \* pure-function specifications: its result
    SERVER_LIST,   \* partylink.py: the module global SERVER_LIST
    task,          \* the _produce_server_list task created by PartyLinks.__init__
    pl_config,     \* PartyLinks.pl_config_db[server]
    pl_allowed,    \* PartyLinks.pl_allowed[server]
    last,          \* the step that ran last and what it sent and deleted
    closed,        \* core/bot.py: Chiaki.close has cancelled what it cancels
    running_games, \* games/bases.py: TwoPlayerGameCog.running_games
    games,         \* games/bases.py: where each _game invocation stands
    cog_aliases,   \* core/bot.py: Chiaki.cog_aliases
    cogs,          \* core/bot.py: Chiaki.cogs
    custom_prefixes \* core/bot.py: Chiaki.custom_prefixes

vars == <<op, inp, out, SERVER_LIST, task, pl_config, pl_allowed, last,
          closed, running_games, games, cog_aliases, cogs, custom_prefixes>>

gameVars == <<running_games, games>>
coreVars == <<cog_aliases, cogs, custom_prefixes>>

codecVars == <<op, inp, out>>
botVars == <<SERVER_LIST, task, pl_config, pl_allowed, last>>

\* A value for the variables a specification does not use.
Unused == "unused"

-----------------------------------------------------------------------------
(* Characters and Python values                                            *)

Digit09 == {"0", "1", "2", "3", "4", "5", "6", "7", "8", "9"}
UpperAF == {"A", "B", "C", "D", "E", "F"}
LowerAF == {"a", "b", "c", "d", "e", "f"}
LowerAZ == {"a", "b", "c", "d", "e", "f", "g", "h", "i", "j", "k", "l", "m",
            "n", "o", "p", "q", "r", "s", "t", "u", "v", "w", "x", "y", "z"}

\* The characters int(s, 16) reads as digits.
HexChars == Digit09 \cup UpperAF \cup LowerAF

\* What str.strip(), int() and the regex class \s take for white space.
Whitespace == {" ", "\t", "\n", "\r", "\f"}

HexVal(c) ==
    CASE c = "0" -> 0  [] c = "1" -> 1  [] c = "2" -> 2  [] c = "3" -> 3
      [] c = "4" -> 4  [] c = "5" -> 5  [] c = "6" -> 6  [] c = "7" -> 7
      [] c = "8" -> 8  [] c = "9" -> 9
      [] c \in {"a", "A"} -> 10  [] c \in {"b", "B"} -> 11
      [] c \in {"c", "C"} -> 12  [] c \in {"d", "D"} -> 13
      [] c \in {"e", "E"} -> 14  [] c \in {"f", "F"} -> 15

DecChar(d) ==
    CASE d = 0 -> "0" [] d = 1 -> "1" [] d = 2 -> "2" [] d = 3 -> "3"
      [] d = 4 -> "4" [] d = 5 -> "5" [] d = 6 -> "6" [] d = 7 -> "7"
      [] d = 8 -> "8" [] d = 9 -> "9"

\* s[a..b] as Python slices do it: never an error, empty when out of range.
Slice(s, a, b) ==
    IF a > b \/ a > Len(s) THEN <<>>
    ELSE SubSeq(s, IF a < 1 THEN 1 ELSE a, IF b > Len(s) THEN Len(s) ELSE b)

RECURSIVE Rep(_, _)
Rep(c, n) == IF n <= 0 THEN <<>> ELSE <<c>> \o Rep(c, n - 1)

RECURSIVE Concat(_)
Concat(ss) == IF ss = <<>> THEN <<>> ELSE Head(ss) \o Concat(Tail(ss))

\* None and a value that is not None.
None == [none |-> TRUE]
Some(v) == [none |-> FALSE, val |-> v]

\* A call that returned v, and the exceptions a call can end with.
Returned(v) == [raised |-> "no", val |-> v]
ValueError == [raised |-> "ValueError"]
StructError == [raised |-> "struct.error"]
AttributeError == [raised |-> "AttributeError"]
NameError == [raised |-> "NameError"]
TypeError == [raised |-> "TypeError"]

-----------------------------------------------------------------------------
(* partylink.py: the code validator and the address decoder                *)

\* _swap_pairs: "".join([b+a for a, b in zip_longest(it, it, fillvalue='')]).
\* The characters are taken two at a time and written back second first; a
\* last character without a partner is paired with the empty fill value.
RECURSIVE _swap_pairs(_)
_swap_pairs(s) ==
    IF Len(s) = 0 THEN <<>>
    ELSE IF Len(s) = 1 THEN s
    ELSE <<s[2], s[1]>> \o _swap_pairs(SubSeq(s, 3, Len(s)))

\* str.strip(): white space removed at both ends.
RECURSIVE LStrip(_)
LStrip(s) == IF s # <<>> /\ Head(s) \in Whitespace THEN LStrip(Tail(s)) ELSE s

RECURSIVE RStrip(_)
RStrip(s) ==
    IF s # <<>> /\ s[Len(s)] \in Whitespace
    THEN RStrip(SubSeq(s, 1, Len(s) - 1)) ELSE s

\* int(s, 16) reads its literal in this order: white space is stripped, one
\* sign is dropped, a 0x or 0X prefix is dropped with one underscore after
\* it, and what is left must be digits with single underscores between them.
AfterSign(t) == IF t # <<>> /\ t[1] \in {"+", "-"} THEN Tail(t) ELSE t

AfterPrefix(u) ==
    IF Len(u) >= 2 /\ u[1] = "0" /\ u[2] \in {"x", "X"}
    THEN (IF Len(u) >= 3 /\ u[3] = "_" THEN SubSeq(u, 4, Len(u))
          ELSE SubSeq(u, 3, Len(u)))
    ELSE u

IntBody(s) == AfterPrefix(AfterSign(RStrip(LStrip(s))))

IntNegative(s) == LStrip(s) # <<>> /\ Head(LStrip(s)) = "-"

\* Whether the body of a literal is one int(s, 16) accepts; it raises
\* ValueError on any other.
DigitsOk(w) ==
    /\ w # <<>>
    /\ w[1] # "_"
    /\ w[Len(w)] # "_"
    /\ \A i \in 1..Len(w) : w[i] \in HexChars \cup {"_"}
    /\ \A i \in 1..(Len(w) - 1) : ~(w[i] = "_" /\ w[i + 1] = "_")

RECURSIVE DropLeadingZeros(_)
DropLeadingZeros(ds) ==
    IF ds # <<>> /\ Head(ds) = 0 THEN DropLeadingZeros(Tail(ds)) ELSE ds

IsHexDigitChar(c) == c \in HexChars

\* The values of the digits of a literal's body, underscores left out.
DigitValues(w) ==
    [i \in 1..Len(SelectSeq(w, IsHexDigitChar)) |->
        HexVal(SelectSeq(w, IsHexDigitChar)[i])]

\* The integer of sign neg and magnitude mag; minus zero is zero.
IntOf(neg, mag) == [raised |-> "no", neg |-> neg /\ mag # <<>>, digits |-> mag]

\* _hex_to_int: int(hexs, 16), ValueError or the integer.
_hex_to_int(hexs) ==
    IF ~DigitsOk(IntBody(hexs)) THEN ValueError
    ELSE IntOf(IntNegative(hexs), DropLeadingZeros(DigitValues(IntBody(hexs))))

\* _is_valid_hex: try: _hex_to_int(s) / except ValueError: False / else: True
_is_valid_hex(s) == _hex_to_int(s).raised = "no"

\* The two bounds of the length test of _is_valid_party_code.
MinCodeLen == 20
MaxCodeLen == 24

_is_valid_party_code(code) ==
    IF Len(code) % 2 # 0 THEN FALSE
    ELSE IF ~(MinCodeLen <= Len(code) /\ Len(code) <= MaxCodeLen) THEN FALSE
    ELSE _is_valid_hex(code)

\* The four bytes of eight base-16 digits, least significant byte first.
BytesLE(d) ==
    <<16 * d[7] + d[8], 16 * d[5] + d[6], 16 * d[3] + d[4], 16 * d[1] + d[2]>>

\* struct.pack("<L", n): the four bytes of n, least significant first;
\* struct.error when n is negative or does not fit 32 bits.
PackLE(n) ==
    IF n.neg \/ Len(n.digits) > 8 THEN StructError
    ELSE [raised |-> "no",
          bytes |-> BytesLE(Rep(0, 8 - Len(n.digits)) \o n.digits)]

\* bytes[::-1]
RECURSIVE Reversed(_)
Reversed(s) == IF s = <<>> THEN <<>> ELSE Reversed(Tail(s)) \o <<Head(s)>>

\* The decimal numeral of a byte, as socket.inet_ntoa writes it.
Decimal(n) ==
    IF n < 10 THEN <<DecChar(n)>>
    ELSE IF n < 100 THEN <<DecChar(n \div 10), DecChar(n % 10)>>
    ELSE <<DecChar(n \div 100), DecChar((n \div 10) % 10), DecChar(n % 10)>>

\* socket.inet_ntoa: the four bytes in order, in decimal, joined by dots.
InetNtoa(b) ==
    Decimal(b[1]) \o <<".">> \o Decimal(b[2]) \o <<".">> \o
    Decimal(b[3]) \o <<".">> \o Decimal(b[4])

\* _ip_from_hex, line 132: socket.inet_ntoa(struct.pack(...)[::-1])
AddressOfPacked(packed) ==
    IF packed.raised # "no" THEN packed
    ELSE [raised |-> "no", ip |-> InetNtoa(Reversed(packed.bytes))]

AddressOf(addr_long) ==
    IF addr_long.raised # "no" THEN addr_long
    ELSE AddressOfPacked(PackLE(addr_long))

\* A decoder that leaves out the swap of the digits of each pair.
_ip_from_hex_noswap(hexs) == AddressOf(_hex_to_int(hexs))

\* _ip_from_hex: swap the pairs, read as an integer, pack little-endian,
\* reverse, inet_ntoa.  The result is [raised |-> "no", ip |-> text] or the
\* exception raised.
_ip_from_hex(hexs) == AddressOf(_hex_to_int(_swap_pairs(hexs)))

-----------------------------------------------------------------------------
(* partylink.py: the link extractor                                        *)

\* The characters of the class [1234567890ABCDEF].
UpperHexChars == Digit09 \cup UpperAF

\* Whether the pattern's prefix diep.io/# matches at position i.  The dot
\* of the pattern is unescaped: it matches any character but a newline.
MarkerAt(s, i) ==
    /\ i + 8 <= Len(s)
    /\ s[i] = "d" /\ s[i + 1] = "i" /\ s[i + 2] = "e" /\ s[i + 3] = "p"
    /\ s[i + 4] # "\n"
    /\ s[i + 5] = "i" /\ s[i + 6] = "o" /\ s[i + 7] = "/" /\ s[i + 8] = "#"

\* The last position of the longest run of characters of `class` that
\* starts at position j (j - 1 when the run is empty): a greedy star.
RECURSIVE RunEnd(_, _, _)
RunEnd(s, j, class) ==
    IF j <= Len(s) /\ s[j] \in class THEN RunEnd(s, j + 1, class) ELSE j - 1

\* Where the search resumes after a match whose hex run ends at e: the
\* pattern's trailing \s? takes one white-space character when there is one.
AfterMatch(s, e) ==
    IF e + 1 <= Len(s) /\ s[e + 1] \in Whitespace THEN e + 2 ELSE e + 1

\* re.findall(r'(diep.io/#[1234567890ABCDEF]*)\s?', message) from position
\* i on: group 1 of every match, leftmost first, matches not overlapping.
\* FindAllMatch is the match that starts at i and whose hex run ends at e.
RECURSIVE FindAllFrom(_, _)
RECURSIVE FindAllMatch(_, _, _)
FindAllMatch(s, i, e) == <<SubSeq(s, i, e)>> \o FindAllFrom(s, AfterMatch(s, e))

FindAllFrom(s, i) ==
    IF i > Len(s) THEN <<>>
    ELSE IF MarkerAt(s, i) THEN FindAllMatch(s, i, RunEnd(s, i + 9, UpperHexChars))
    ELSE FindAllFrom(s, i + 1)

_extract_links(message) == FindAllFrom(message, 1)

\* The first position from i on where the pattern matches, 0 when none.
RECURSIVE FirstMarker(_, _)
FirstMarker(s, i) ==
    IF i > Len(s) THEN 0
    ELSE IF MarkerAt(s, i) THEN i ELSE FirstMarker(s, i + 1)

\* _search: re.search(pattern, string).group(1) for a match at position i,
\* None when nothing matched (i = 0).
_search(link, i) ==
    IF i = 0 THEN None
    ELSE Some(Slice(link, i + 9, RunEnd(link, i + 9, UpperHexChars)))

\* _extract_code: _search with the pattern diep.io/#([1234567890ABCDEF]*)\s?
_extract_code(link) == _search(link, FirstMarker(link, 1))

-----------------------------------------------------------------------------
(* partylink.py: DiepioServer, the directory record and its parser         *)

\* The last position before the first newline at or after j: the dot of a
\* pattern does not match a newline.
RECURSIVE LineEnd(_, _)
LineEnd(s, j) ==
    IF j <= Len(s) /\ s[j] # "\n" THEN LineEnd(s, j + 1) ELSE j - 1

\* The last position in a..b that holds a colon, 0 when there is none.
RECURSIVE LastColon(_, _, _)
LastColon(s, a, b) ==
    IF b < a THEN 0
    ELSE IF s[b] = ":" THEN b ELSE LastColon(s, a, b - 1)

NoMatch == [match |-> FALSE]

Groups3(name, e1, e2, a, b) ==
    [match |-> TRUE,
     groups |-> <<Slice(name, 1, e1), Slice(name, e1 + 2, e2), Slice(name, a, b)>>]

\* The end of the match that began with letter runs ending at e1 and e2: k1
\* is the last colon of the line after position e2 + 1, k0 the last colon
\* of the line from position e2 + 1 on.  The optional colon is taken when a
\* later colon on the line can close the pattern; (.*) runs to the last
\* colon of the line.
ServerMatchTail(name, e1, e2, k1, k0) ==
    IF e2 + 1 <= Len(name) /\ name[e2 + 1] = ":" /\ k1 > 0
    THEN Groups3(name, e1, e2, e2 + 2, k1 - 1)
    ELSE IF k0 > 0 THEN Groups3(name, e1, e2, e2 + 1, k0 - 1)
    ELSE NoMatch

ServerMatchLocation(name, e1, e2) ==
    ServerMatchTail(name, e1, e2,
                    LastColon(name, e2 + 2, LineEnd(name, e2 + 2)),
                    LastColon(name, e2 + 1, LineEnd(name, e2 + 1)))

ServerMatchCompany(name, e1) ==
    IF ~(e1 + 1 <= Len(name) /\ name[e1 + 1] = "-") THEN NoMatch
    ELSE ServerMatchLocation(name, e1, RunEnd(name, e1 + 2, LowerAZ))

\* DiepioServer._server without .groups():
\* re.match(r'([a-z]*)-([a-z]*):?(.*):', self.name).  Both letter runs are
\* greedy and cannot give back: what follows a shorter run is a letter, not
\* the dash, and the rest would hold the same colons.
ServerMatch(name) == ServerMatchCompany(name, RunEnd(name, 1, LowerAZ))

Groups2(ip_port, le, k) ==
    IF k = 0 THEN NoMatch
    ELSE [match |-> TRUE,
          groups |-> <<Slice(ip_port, 1, k - 1), Slice(ip_port, k + 1, le)>>]

IpPortMatchLine(ip_port, le) == Groups2(ip_port, le, LastColon(ip_port, 1, le))

\* DiepioServer._ip_port without .groups(): re.match(r'(.*):(.*)', ip_port)
IpPortMatch(ip_port) == IpPortMatchLine(ip_port, LineEnd(ip_port, 1))

\* m.groups(); None.groups() raises AttributeError.
GroupsOf(m) == IF m.match THEN Returned(m.groups) ELSE AttributeError

\* discord.utils.cached_property: the first access that returns stores the
\* value on the instance under the name of the property, and later
\* accesses read it from there.  A record that holds the field `key` is an
\* instance on which the property has been read.
IsCached(self, key) == key \in DOMAIN self

\* A memo that keeps the company and the location and loses the mode code.
Cached_short(self, key, g) ==
    IF g.raised # "no" THEN self
    ELSE [x \in DOMAIN self \cup {key} |->
             IF x = key THEN <<g.val[1], g.val[2], <<>>>> ELSE self[x]]

\* The instance after an access of the property that ended with g.
Cached(self, key, g) ==
    IF g.raised # "no" THEN self
    ELSE [x \in DOMAIN self \cup {key} |-> IF x = key THEN g.val ELSE self[x]]

\* DiepioServer._server
_server(self) ==
    IF IsCached(self, "_server") THEN Returned(self["_server"])
    ELSE GroupsOf(ServerMatch(self.name))

\* DiepioServer._ip_port
_ip_port(self) ==
    IF IsCached(self, "_ip_port") THEN Returned(self["_ip_port"])
    ELSE GroupsOf(IpPortMatch(self.ip_port))

\* self._ip_port[0], self._server[0] and so on, g the groups or the exception
Item(g, k) == IF g.raised # "no" THEN g ELSE Returned(g.val[k])

\* DiepioServer.ip
ip(self) == Item(_ip_port(self), 1)

UpperOf(c) ==
    CASE c = "a" -> "A" [] c = "b" -> "B" [] c = "c" -> "C" [] c = "d" -> "D"
      [] c = "e" -> "E" [] c = "f" -> "F" [] c = "g" -> "G" [] c = "h" -> "H"
      [] c = "i" -> "I" [] c = "j" -> "J" [] c = "k" -> "K" [] c = "l" -> "L"
      [] c = "m" -> "M" [] c = "n" -> "N" [] c = "o" -> "O" [] c = "p" -> "P"
      [] c = "q" -> "Q" [] c = "r" -> "R" [] c = "s" -> "S" [] c = "t" -> "T"
      [] c = "u" -> "U" [] c = "v" -> "V" [] c = "w" -> "W" [] c = "x" -> "X"
      [] c = "y" -> "Y" [] c = "z" -> "Z" [] OTHER -> c

\* str.title() of a run of lower-case letters (all group 1 can hold): the
\* first letter in upper case, the others as they are.
Title(s) == IF s = <<>> THEN <<>> ELSE <<UpperOf(s[1])>> \o Tail(s)

TitleOf(g) == IF g.raised # "no" THEN g ELSE Returned(Title(g.val))

\* DiepioServer.company
company(self) == TitleOf(Item(_server(self), 1))

\* DiepioServer.location
location(self) == Item(_server(self), 2)

FFA == <<"F", "F", "A">>
TDM2 == <<"2", "-", "T", "D", "M">>
TDM4 == <<"4", "-", "T", "D", "M">>
Domination == <<"D", "o", "m", "i", "n", "a", "t", "i", "o", "n">>
Maze == <<"M", "a", "z", "e">>
Sandbox == <<"S", "a", "n", "d", "b", "o", "x">>

\* A table lookup without the default: an unknown code is left as it is.
_translations_get_nodefault(code) ==
    CASE code = <<"t", "e", "a", "m", "s">> -> TDM2
      [] code = <<"4", "t", "e", "a", "m", "s">> -> TDM4
      [] code = <<"d", "o", "m">> -> Domination
      [] code = <<"m", "a", "z", "e">> -> Maze
      [] code = <<"s", "a", "n", "d", "b", "o", "x">> -> Sandbox
      [] OTHER -> code

\* DiepioServer._translations.get(code, 'FFA')
_translations_get(code) ==
    CASE code = <<"t", "e", "a", "m", "s">> -> TDM2
      [] code = <<"4", "t", "e", "a", "m", "s">> -> TDM4
      [] code = <<"d", "o", "m">> -> Domination
      [] code = <<"m", "a", "z", "e">> -> Maze
      [] code = <<"s", "a", "n", "d", "b", "o", "x">> -> Sandbox
      [] OTHER -> FFA

Translated(g) ==
    IF g.raised # "no" THEN g ELSE Returned(_translations_get(g.val))

\* DiepioServer.mode
mode(self) == Translated(Item(_server(self), 3))

-----------------------------------------------------------------------------
(* partylink.py: LinkServerData, the resolved link and its classification  *)

\* LinkServerData.code_length
code_length(self) == Len(self.code)

\* str.endswith
EndsWith(s, suffix) ==
    Len(s) >= Len(suffix) /\ SubSeq(s, Len(s) - Len(suffix) + 1, Len(s)) = suffix

\* The length above which is_sandbox takes a code for a sandbox code.
SandboxLen == 20

ModeIsSandbox(m) == IF m.raised # "no" THEN m ELSE Returned(m.val = Sandbox)

ModeOrLengthIsSandbox(self, m) ==
    IF m.raised # "no" THEN m
    ELSE Returned(m.val = Sandbox \/ code_length(self) > SandboxLen)

\* A classifier that looks at the mode only.
is_sandbox_modeonly(self) == ModeIsSandbox(mode(self.server))

\* LinkServerData.is_sandbox:
\* self.server.mode == 'Sandbox' or self.code_length > 20
is_sandbox(self) == ModeOrLengthIsSandbox(self, mode(self.server))

ModeEndsWithTdm(m) ==
    IF m.raised # "no" THEN m ELSE Returned(EndsWith(m.val, <<"T", "D", "M">>))

ModeIsTdm2(m) == IF m.raised # "no" THEN m ELSE Returned(m.val = TDM2)

\* A classifier that knows the two-team mode only.
is_tdm_two(self) == ModeIsTdm2(mode(self.server))

\* LinkServerData.is_tdm: self.server.mode.endswith('TDM')
is_tdm(self) == ModeEndsWithTdm(mode(self.server))

Formatted(self, i, m) ==
    IF i.raised # "no" THEN i
    ELSE IF m.raised # "no" THEN m
    ELSE Returned([code |-> self.code, server |-> self.server])

\* LinkServerData.format reads server.ip, mode, company and location; all
\* that matters here is whether it returns or raises.
format(self) == Formatted(self, ip(self.server), mode(self.server))

-----------------------------------------------------------------------------
(* partylink.py: the directory lookup and read_link                        *)

\* The module global before _produce_server_list has assigned it, and after.
Unset == [set |-> FALSE]
Loaded(servers) == [set |-> TRUE, servers |-> servers]

\* discord.utils.get(SERVER_LIST, ip=ip): the first element whose attribute
\* ip equals ip, None when there is none; reading the attribute of an
\* element met on the way may raise.  UtilsGetElem has the attribute a of
\* the first element in hand.
RECURSIVE UtilsGetIp(_, _)
RECURSIVE UtilsGetElem(_, _, _)
UtilsGetElem(servers, addr, a) ==
    IF a.raised # "no" THEN a
    ELSE IF a.val = addr THEN Returned(Some(Head(servers)))
    ELSE UtilsGetIp(Tail(servers), addr)

UtilsGetIp(servers, addr) ==
    IF servers = <<>> THEN Returned(None)
    ELSE UtilsGetElem(servers, addr, ip(Head(servers)))

\* _find_server_by_ip; reading the global before it is assigned is a NameError.
_find_server_by_ip(list, addr) ==
    IF ~list.set THEN NameError ELSE UtilsGetIp(list.servers, addr)

\* The argument read_link gives _ip_from_hex: code[:8]
CodePrefix(code) == Slice(code, 1, 8)

\* read_link, lines 162-165, server the result of _find_server_by_ip
ReadFound(code, server) ==
    IF server.raised # "no" THEN server
    ELSE IF server.val.none THEN Returned(None)
    ELSE Returned(Some([code |-> code, server |-> server.val.val]))

\* read_link, line 162, addr the result of _ip_from_hex
ReadDecoded(list, code, addr) ==
    IF addr.raised # "no" THEN addr
    ELSE ReadFound(code, _find_server_by_ip(list, addr.ip))

\* read_link, lines 158-161, code the result of _extract_code
ReadCode(list, code) ==
    IF code.none THEN TypeError   \* len(None)
    ELSE IF ~_is_valid_party_code(code.val) THEN Returned(None)
    ELSE ReadDecoded(list, code.val, _ip_from_hex(CodePrefix(code.val)))

\* read_link: Returned(None), Returned(Some(LinkServerData)) or the
\* exception raised.
read_link(list, link) == ReadCode(list, _extract_code(link))

-----------------------------------------------------------------------------
(* The codec under test: read_link's validation and decoding of one code   *)

\* The longest run of filler digits in a generated code.
MaxPad == 18

HexPairs == {<<"0", "A">>, <<"1", "4">>, <<"1", "E">>, <<"2", "8">>}

CodeHeads ==
    {a \o b \o c \o d : a \in HexPairs, b \in HexPairs, c \in HexPairs,
                        d \in HexPairs}
    \cup {<<>>, <<"0", "x">>, <<"+">>, <<"-">>, <<" ">>, <<"0", "_">>,
          <<"_">>, <<"0", "x", "_">>}

CodeTails == {<<>>, <<"a", "F">>, <<"G">>, <<"\n">>, <<"_", "1">>}

\* The strings the validator is tried on: every shape of head, a run of
\* zeros of every length up to MaxPad, every shape of tail.
CodeInputs ==
    {h \o Rep("0", n) \o t : h \in CodeHeads, n \in 0..MaxPad, t \in CodeTails}

\* The bot's variables in a specification of pure functions.
BotUnused ==
    /\ SERVER_LIST = Unused
    /\ task = Unused
    /\ pl_config = Unused
    /\ pl_allowed = Unused
    /\ last = Unused
    /\ closed = Unused
    /\ running_games = Unused
    /\ games = Unused
    /\ cog_aliases = Unused
    /\ cogs = Unused
    /\ custom_prefixes = Unused

CodecInit ==
    /\ op = "input"
    /\ inp \in CodeInputs
    /\ out = Unused
    /\ BotUnused

\* read_link, lines 158-159: if not _is_valid_party_code(code): return None
Validate ==
    /\ op = "input"
    /\ op' = "_is_valid_party_code"
    /\ out' = [valid |-> _is_valid_party_code(inp)]
    /\ UNCHANGED <<inp, botVars, closed, gameVars, coreVars>>

\* read_link, line 161, reached with a code that passed the validator
Decode ==
    /\ op = "_is_valid_party_code"
    /\ out.valid
    /\ op' = "_ip_from_hex"
    /\ out' = _ip_from_hex(CodePrefix(inp))
    /\ UNCHANGED <<inp, botVars, closed, gameVars, coreVars>>

CodecNext == Validate \/ Decode

SpecCodec == CodecInit /\ [][CodecNext]_vars

-----------------------------------------------------------------------------
(* Claims about the codec                                                  *)

\* The validity rule as the specification states it: even length, between
\* 20 and 24 characters, every character a hexadecimal digit.
StatedValid(s) ==
    /\ Len(s) % 2 = 0
    /\ 20 <= Len(s)
    /\ Len(s) <= 24
    /\ \A i \in 1..Len(s) : s[i] \in HexChars

RECURSIVE JoinStr(_)
JoinStr(cs) == IF cs = <<>> THEN "" ELSE Head(cs) \o JoinStr(Tail(cs))

\* The octet a pair of hexadecimal digits stands for once its digits are
\* swapped: the second digit is the high nibble.
SwappedOctet(s, k) == 16 * HexVal(s[2 * k]) + HexVal(s[2 * k - 1])

StatedAddress(s) ==
    ToString(SwappedOctet(s, 1)) \o "." \o ToString(SwappedOctet(s, 2)) \o "."
    \o ToString(SwappedOctet(s, 3)) \o "." \o ToString(SwappedOctet(s, 4))

\* C5: for every string s, _is_valid_party_code(s) is true if and only if
\* len(s) is even, 20 <= len(s) <= 24 and every character of s is a
\* hexadecimal digit; a string with any other character is rejected.
C5_ValidIffEvenLengthHex ==
    op = "_is_valid_party_code" => (out.valid <=> StatedValid(inp))

\* C6: for every valid code the decoded address comes from the first 8
\* characters only: each of the 4 pairs has its two digits swapped, and the
\* 4 bytes in that order are the 4 octets of the dotted-decimal address; a
\* code starting with 0A141E28 decodes to 160.65.225.130.
C6_DecodeSwapsNibbles ==
    (op = "_ip_from_hex" /\ StatedValid(inp)) =>
        /\ out.raised = "no"
        /\ JoinStr(out.ip) = StatedAddress(inp)
        /\ (SubSeq(inp, 1, 8) = <<"0", "A", "1", "4", "1", "E", "2", "8">>
               => JoinStr(out.ip) = "160.65.225.130")

\* C6's case: a 22-character code starting with 0A141E28 has been decoded.
C6_Witness ==
    /\ op = "_ip_from_hex"
    /\ StatedValid(inp)
    /\ Len(inp) = 22
    /\ SubSeq(inp, 1, 8) = <<"0", "A", "1", "4", "1", "E", "2", "8">>

-----------------------------------------------------------------------------
(* The record parser and the classifier under test                         *)

NameCompanies == {<<>>, <<"u", "s", "a">>, <<"a", "b", "c">>, <<"U", "s">>}
NameLocations == {<<>>, <<"w", "e", "s", "t">>, <<"x", "y", "z">>}
NameDashes == {<<"-">>, <<>>}
NameColons == {<<":">>, <<>>}
NameModeCodes ==
    {<<"t", "e", "a", "m", "s">>, <<"4", "t", "e", "a", "m", "s">>,
     <<"d", "o", "m">>, <<"m", "a", "z", "e">>,
     <<"s", "a", "n", "d", "b", "o", "x">>, <<>>,
     <<"T", "e", "a", "m", "s">>, <<"t", "e", ":", "a", "m", "s">>,
     <<"u", "n", "k", "n", "o", "w", "n", "m", "o", "d", "e">>,
     <<"t", "e", "a", "m", "s", "\n">>}
NameTrails == {<<":">>, <<>>, <<":", "x">>}

\* The raw names the parser is tried on: every combination of the pieces.
RawNames ==
    {c \o d \o l \o k \o m \o t :
        c \in NameCompanies, d \in NameDashes, l \in NameLocations,
        k \in NameColons, m \in NameModeCodes, t \in NameTrails}

\* The lengths a code that passed the validator can have.
ValidCodeLens == {n \in MinCodeLen..MaxCodeLen : n % 2 = 0}

RecordInputs ==
    {[code |-> Rep("A", n),
      server |-> [ip_port |-> <<"1", ".", "2", ":", "4", "4", "3">>, name |-> nm]] :
        n \in ValidCodeLens, nm \in RawNames}

RecordInit ==
    /\ op = "input"
    /\ inp \in RecordInputs
    /\ out = Unused
    /\ BotUnused

\* The link after its record's name has been read: every one of company,
\* location and mode reads _server, which leaves its memo on the record.
AfterServerRead(link) ==
    [link EXCEPT !.server = Cached(link.server, "_server", _server(link.server))]

\* Reading the three derived fields of the record, company, location, mode.
Parse ==
    /\ op' = "parse"
    /\ out' = [company |-> company(inp.server),
               location |-> location(inp.server),
               mode |-> mode(inp.server)]
    /\ inp' = AfterServerRead(inp)
    /\ UNCHANGED <<botVars, closed, gameVars, coreVars>>

IsSandbox ==
    /\ op' = "is_sandbox"
    /\ out' = is_sandbox(inp)
    /\ inp' = AfterServerRead(inp)
    /\ UNCHANGED <<botVars, closed, gameVars, coreVars>>

IsTdm ==
    /\ op' = "is_tdm"
    /\ out' = is_tdm(inp)
    /\ inp' = AfterServerRead(inp)
    /\ UNCHANGED <<botVars, closed, gameVars, coreVars>>

RecordNext == Parse \/ IsSandbox \/ IsTdm

SpecRecord == RecordInit /\ [][RecordNext]_vars

\* The translation table as the specification states it.
StatedMode(code) ==
    IF code = <<"t", "e", "a", "m", "s">> THEN "2-TDM"
    ELSE IF code = <<"4", "t", "e", "a", "m", "s">> THEN "4-TDM"
    ELSE IF code = <<"d", "o", "m">> THEN "Domination"
    ELSE IF code = <<"m", "a", "z", "e">> THEN "Maze"
    ELSE IF code = <<"s", "a", "n", "d", "b", "o", "x">> THEN "Sandbox"
    ELSE "FFA"

IsLowerWord(s) == s # <<>> /\ \A i \in 1..Len(s) : s[i] \in LowerAZ

\* C7: for every resolved link whose code has length 22 or 24, is_sandbox()
\* is true whatever the mode of its record is.
C7_LongCodeIsSandbox ==
    (op = "is_sandbox" /\ Len(inp.code) \in {22, 24}
        /\ mode(inp.server).raised = "no") => out = Returned(TRUE)

\* C7's case: is_sandbox() was called on a 24-character link to a 2-TDM record.
C7_Witness ==
    /\ op = "is_sandbox"
    /\ Len(inp.code) = 24
    /\ mode(inp.server) = Returned(TDM2)
    /\ out = Returned(TRUE)

\* C8: for every raw name company-location:code: (company and location
\* non-empty runs of lower-case letters, code any text of one line) the
\* parsed mode is the table translation of code, FFA for every code that is
\* not a key of the table, the empty one included; company is the first
\* field title-cased and location the second field unchanged.
C8_ParseFields ==
    op = "parse" =>
        \A c \in NameCompanies, l \in NameLocations, m \in NameModeCodes :
            (/\ IsLowerWord(c)
             /\ IsLowerWord(l)
             /\ \A i \in 1..Len(m) : m[i] # "\n"
             /\ inp.server.name = c \o <<"-">> \o l \o <<":">> \o m \o <<":">>)
            => /\ out.company = Returned(<<UpperOf(c[1])>> \o Tail(c))
               /\ out.location = Returned(l)
               /\ out.mode.raised = "no"
               /\ JoinStr(out.mode.val) = StatedMode(m)

\* The two examples of C8: "usa-west:teams:" and "abc-xyz:unknownmode:".
C8_Examples ==
    op = "parse" =>
        /\ (inp.server.name = <<"u", "s", "a", "-", "w", "e", "s", "t", ":",
                                "t", "e", "a", "m", "s", ":">>
              => /\ JoinStr(out.company.val) = "Usa"
                 /\ JoinStr(out.location.val) = "west"
                 /\ JoinStr(out.mode.val) = "2-TDM")
        /\ (inp.server.name = <<"a", "b", "c", "-", "x", "y", "z", ":",
                                "u", "n", "k", "n", "o", "w", "n", "m", "o", "d", "e", ":">>
              => JoinStr(out.mode.val) = "FFA")

C8_ParseFieldsAndExamples == C8_ParseFields /\ C8_Examples

\* C8's case: "abc-xyz:unknownmode:" has been parsed.
C8_Witness ==
    /\ op = "parse"
    /\ inp.server.name = <<"a", "b", "c", "-", "x", "y", "z", ":",
                           "u", "n", "k", "n", "o", "w", "n", "m", "o", "d", "e", ":">>
    /\ out.mode = Returned(FFA)

\* The link as it was resolved: its code and the two fields of its record,
\* without what reading the record has left on it.
Fresh(link) ==
    [code |-> link.code,
     server |-> [ip_port |-> link.server.ip_port, name |-> link.server.name]]

\* C17: classification is pure: for the same resolved link, is_sandbox()
\* and is_tdm(), called any number of times in any order, return what they
\* return on the link as it was resolved, and the calls change neither the
\* code nor the fields of the record.
C17_ClassificationIsPure ==
    /\ [](op = "is_sandbox" => out = is_sandbox(Fresh(inp)))
    /\ [](op = "is_tdm" => out = is_tdm(Fresh(inp)))
    /\ [][Fresh(inp') = Fresh(inp)]_vars

\* C17's case: is_tdm() has returned true on a link whose record had been
\* read before.
C17_Witness ==
    /\ op = "is_tdm"
    /\ IsCached(inp.server, "_server")
    /\ out = Returned(TRUE)

\* C18: is_tdm() is true exactly when the mode code of the record is teams
\* or 4teams, and false for every other code, whatever the length of the
\* link's code.
C18_TdmIffTeamsCode ==
    op = "is_tdm" =>
        \A c \in NameCompanies, l \in NameLocations, m \in NameModeCodes :
            (/\ IsLowerWord(c)
             /\ IsLowerWord(l)
             /\ \A i \in 1..Len(m) : m[i] # "\n"
             /\ inp.server.name = c \o <<"-">> \o l \o <<":">> \o m \o <<":">>)
            => out = Returned(m \in {<<"t", "e", "a", "m", "s">>,
                                     <<"4", "t", "e", "a", "m", "s">>})

\* C18's case: is_tdm() is true of a 24-character link to a 4teams record.
C18_Witness ==
    /\ op = "is_tdm"
    /\ Len(inp.code) = 24
    /\ inp.server.name = <<"u", "s", "a", "-", "w", "e", "s", "t", ":",
                           "4", "t", "e", "a", "m", "s", ":">>
    /\ out = Returned(TRUE)

\* C20: the parser accepts a raw name only with a non-empty company and a
\* non-empty location; a name with an empty one, such as "-west:teams:" or
\* "usa-:teams:", is a parse failure, not a record with an empty field.
C20_EmptyFieldIsParseFailure ==
    (op = "parse" /\ out.company.raised = "no")
        => (out.company.val # <<>> /\ out.location.val # <<>>)

-----------------------------------------------------------------------------
(* The link extractor under test                                           *)

\* The most pieces a generated text is made of.
MaxPieces == 4

TextPieces ==
    {<<"d", "i", "e", "p", ".", "i", "o", "/", "#", "1", "A">>,
     <<"d", "i", "e", "p", ".", "i", "o", "/", "#">>,
     <<"d", "i", "e", "p", "X", "i", "o", "/", "#", "1", "A">>,
     <<"d", "i", "e", "p">>,
     <<"B", "2">>, <<" ">>, <<"x">>}

Texts ==
    {Concat(ps) : ps \in UNION {[1..n -> TextPieces] : n \in 0..MaxPieces}}

ExtractInit ==
    /\ op = "input"
    /\ inp \in Texts
    /\ out = Unused
    /\ BotUnused

ExtractLinks ==
    /\ op = "input"
    /\ op' = "_extract_links"
    /\ out' = _extract_links(inp)
    /\ UNCHANGED <<inp, botVars, closed, gameVars, coreVars>>

ExtractNext == ExtractLinks

SpecExtract == ExtractInit /\ [][ExtractNext]_vars

\* The marker as the specification states it: the fixed literal diep.io/#
LiteralMarkerAt(s, i) == MarkerAt(s, i) /\ s[i + 4] = "."

\* The positions of the literal marker in s from position i on, in order.
\* Two occurrences cannot overlap: the marker holds a single d.
RECURSIVE MarkerPositions(_, _)
MarkerPositions(s, i) ==
    IF i > Len(s) THEN <<>>
    ELSE IF LiteralMarkerAt(s, i) THEN <<i>> \o MarkerPositions(s, i + 1)
    ELSE MarkerPositions(s, i + 1)

\* C10: _extract_links returns one candidate per non-overlapping occurrence
\* of the marker in the text, in left-to-right order, duplicates kept
\* verbatim; text with no marker yields the empty list.
C10_OneCandidatePerMarker ==
    op = "_extract_links" =>
        LET pos == MarkerPositions(inp, 1)
        IN  /\ Len(out) = Len(pos)
            /\ \A k \in 1..Len(out) :
                   Slice(inp, pos[k], pos[k] + Len(out[k]) - 1) = out[k]

\* C19: every candidate starts at an occurrence of the literal marker in
\* the text, the dot included, and is that marker followed by the longest
\* run of upper-case hex digits after it; a text without the literal marker
\* yields no candidate.
C19_CandidateStartsAtLiteralMarker ==
    op = "_extract_links" =>
        /\ \A k \in 1..Len(out) :
               \E i \in 1..Len(inp) :
                   /\ LiteralMarkerAt(inp, i)
                   /\ out[k] = Slice(inp, i, RunEnd(inp, i + 9, UpperHexChars))
        /\ (MarkerPositions(inp, 1) = <<>> => out = <<>>)

-----------------------------------------------------------------------------
(* partylink.py: PartyLinks, the cog                                       *)

\* The roles of the guild and the roles a message author can hold.
Roles == {"r1"}

\* PartyLinks._is_immune
_is_immune(allowed, message) ==
    IF allowed = <<>> THEN FALSE
    ELSE \E i \in 1..Len(allowed) : allowed[i] \in message.roles

\* What a handler sends and deletes, in order.
Notice(kind) == [kind |-> "notice", about |-> kind]
Delete == [kind |-> "delete"]
Embed(data, header) == [kind |-> "embed", header |-> header, code |-> data.code]

Done(events) == [raised |-> "no", events |-> events]

\* A deletion that sends its notice even when told to be silent.
_handle_delete_notify(allowed, message, notice, silent) ==
    IF _is_immune(allowed, message) THEN <<>>
    ELSE <<Notice(notice), Delete>>

\* PartyLinks._handle_delete
_handle_delete(allowed, message, notice, silent) ==
    IF _is_immune(allowed, message) THEN <<>>
    ELSE (IF ~silent THEN <<Notice(notice)>> ELSE <<>>) \o <<Delete>>

\* The results of read_link on every link, in order: map(read_link, links)
ReadAll(list, links) == [i \in 1..Len(links) |-> read_link(list, links[i])]

\* The first exception among results, Returned(TRUE) when there is none.
RECURSIVE FirstRaised(_)
FirstRaised(rs) ==
    IF rs = <<>> THEN Returned(TRUE)
    ELSE IF Head(rs).raised # "no" THEN Head(rs)
    ELSE FirstRaised(Tail(rs))

IsSome(r) == ~r.val.none

Values(kept) == [i \in 1..Len(kept) |-> kept[i].val.val]

\* list(filter(None, ...)) over results none of which raised
Resolved(rs) == Values(SelectSeq(rs, IsSome))

\* any(...) over the results of a predicate that may raise: the elements are
\* evaluated in order and the evaluation stops at the first true one.
RECURSIVE AnyOf(_)
AnyOf(rs) ==
    IF rs = <<>> THEN Returned(FALSE)
    ELSE IF Head(rs).raised # "no" THEN Head(rs)
    ELSE IF Head(rs).val THEN Returned(TRUE)
    ELSE AnyOf(Tail(rs))

\* A notification that stops after the message with the header.
DetectEvents_first(link_data) ==
    [i \in 1..(IF link_data = <<>> THEN 0 ELSE 1) |-> Embed(link_data[i], i = 1)]

\* The detection notification: the header with the first embed, then one
\* message for each of the other embeds.
DetectEvents(link_data) ==
    [i \in 1..Len(link_data) |-> Embed(link_data[i], i = 1)]

\* on_message, lines 214-219, data_formats the list of line 213 or the
\* exception that building it raised
DetectRule(config, link_data, data_formats) ==
    IF data_formats.raised # "no" THEN data_formats
    ELSE IF config.detect /\ link_data # <<>> THEN Done(DetectEvents(link_data))
    ELSE Done(<<>>)

\* on_message, line 213: data_formats = [data.format() for data in link_data]
DetectStep(config, link_data) ==
    DetectRule(config, link_data,
               FirstRaised([i \in 1..Len(link_data) |-> format(link_data[i])]))

\* on_message, lines 208-211, sandbox the value of the any(...) of line 208
SandboxRule(config, allowed, message, link_data, sandbox) ==
    IF sandbox.raised # "no" THEN sandbox
    ELSE IF sandbox.val
    THEN Done(_handle_delete(allowed, message, "sandbox", FALSE))
    ELSE DetectStep(config, link_data)

\* on_message, line 208: config["delete"] and any(data.is_sandbox() ...)
SandboxStep(config, allowed, message, link_data) ==
    IF ~config.delete THEN DetectStep(config, link_data)
    ELSE SandboxRule(config, allowed, message, link_data,
                     AnyOf([i \in 1..Len(link_data) |-> is_sandbox(link_data[i])]))

\* on_message, lines 202-204, tdm the value of the any(...) of line 202
TdmRule(config, allowed, message, link_data, tdm) ==
    IF tdm.raised # "no" THEN tdm
    ELSE IF tdm.val THEN Done(_handle_delete(allowed, message, "tdm", FALSE))
    ELSE SandboxStep(config, allowed, message, link_data)

\* A handler without the TDM rule.
TdmStep_skipped(config, allowed, message, link_data) ==
    SandboxStep(config, allowed, message, link_data)

\* on_message, line 202: config.get("tdm_delete") and any(data.is_tdm() ...)
TdmStep(config, allowed, message, link_data) ==
    IF ~config.tdm_delete THEN SandboxStep(config, allowed, message, link_data)
    ELSE TdmRule(config, allowed, message, link_data,
                 AnyOf([i \in 1..Len(link_data) |-> is_tdm(link_data[i])]))

\* PartyLinks.on_message from line 197 on, with the links read.
Moderate(config, allowed, message, link_data) ==
    IF config.all_delete
    THEN Done(_handle_delete(allowed, message, "none", TRUE))
    ELSE TdmStep(config, allowed, message, link_data)

\* on_message, line 195: an exception of read_link ends the handler
OnRead(config, allowed, message, read, raised) ==
    IF raised.raised # "no" THEN raised
    ELSE Moderate(config, allowed, message, Resolved(read))

\* on_message, lines 193-195
OnLinks(list, config, allowed, message, links) ==
    IF links = <<>> THEN Done(<<>>)
    ELSE OnRead(config, allowed, message, ReadAll(list, links),
                FirstRaised(ReadAll(list, links)))

\* PartyLinks.on_message: what it sends and deletes, or the exception that
\* ends it.
on_message(list, config, allowed, message) ==
    OnLinks(list, config, allowed, message, _extract_links(message.content))

-----------------------------------------------------------------------------
(* The bot: the directory task, the admin commands and the messages        *)

\* The most links a generated message holds, and the most entries the list
\* of immune roles grows to.
MaxLinks == 2
MaxAllowed == 1

Url == <<"d", "i", "e", "p", ".", "i", "o", "/", "#">>
Net == <<"1", "6", "0", ".", "6", "5", ".", "2", "2", "5", ".">>
Port == <<":", "4", "4", "3">>

\* Party codes: 0A141E28 is 160.65.225.130, 0A141E38 is ...131 and so on.
CodeOf(last_pair, n) ==
    <<"0", "A", "1", "4", "1", "E">> \o last_pair \o Rep("0", n - 8)

LinkTdm == Url \o CodeOf(<<"2", "8">>, MinCodeLen)
LinkSandbox == Url \o CodeOf(<<"3", "8">>, MinCodeLen + 2)
LinkMalformed == Url \o CodeOf(<<"5", "8">>, MinCodeLen)
LinkInvalid == Url \o <<"1", "A">>

\* The links a generated message is made of, by name.
LinkNames == {"tdm", "sandbox", "malformed", "invalid"}

LinkText(n) ==
    CASE n = "tdm" -> LinkTdm
      [] n = "sandbox" -> LinkSandbox
      [] n = "malformed" -> LinkMalformed
      [] n = "invalid" -> LinkInvalid

ServerTdm == [ip_port |-> Net \o <<"1", "3", "0">> \o Port,
              name |-> <<"a", "-", "b", ":", "t", "e", "a", "m", "s", ":">>]
ServerSandbox == [ip_port |-> Net \o <<"1", "3", "1">> \o Port,
                  name |-> <<"a", "-", "b", ":", "s", "a", "n", "d", "b", "o", "x", ":">>]
ServerFfa == [ip_port |-> Net \o <<"1", "3", "2">> \o Port,
              name |-> <<"a", "-", "b", ":", ":">>]
ServerMalformed == [ip_port |-> Net \o <<"1", "3", "3">> \o Port,
                    name |-> <<"a", "b", ":", "t", "e", "a", "m", "s">>]

\* The character '\x00', which separates the fields of the site's answer.
NUL == "NUL"

\* The position of the first NUL of s from i on, 0 when there is none.
RECURSIVE FirstNul(_, _)
FirstNul(s, i) ==
    IF i > Len(s) THEN 0
    ELSE IF s[i] = NUL THEN i ELSE FirstNul(s, i + 1)

\* str.split('\x00'): the fields between the separators, empty ones kept;
\* SplitAt has the position k of the first separator in hand.
RECURSIVE Split(_)
RECURSIVE SplitAt(_, _)
SplitAt(s, k) ==
    IF k = 0 THEN <<s>>
    ELSE <<Slice(s, 1, k - 1)>> \o Split(Slice(s, k + 1, Len(s)))

Split(s) == SplitAt(s, FirstNul(s, 1))

\* What the loader ends with when the payload cannot be paired.
MalformedPayload == [raised |-> "malformed payload"]

\* utils.misc.pairwise: record i is (field[2i], field[2i+1]); a payload
\* with an odd number of fields is malformed and fails.
pairwise(fields) ==
    IF Len(fields) % 2 # 0 THEN MalformedPayload
    ELSE Returned([i \in 1..(Len(fields) \div 2) |->
                      <<fields[2 * i - 1], fields[2 * i]>>])

\* DiepioServer(*s): namedtuple('DiepioServer', 'ip_port name')
DiepioServer(s) == [ip_port |-> s[1], name |-> s[2]]

\* A list built without the last pair of the payload.
ServersOf_short(servers) ==
    IF servers.raised # "no" THEN servers
    ELSE Returned([i \in 1..(Len(servers.val) - 1) |-> DiepioServer(servers.val[i])])

\* _load_servers_from_site, line 30: [DiepioServer(*s) for s in servers]
ServersOf(servers) ==
    IF servers.raised # "no" THEN servers
    ELSE Returned([i \in 1..Len(servers.val) |-> DiepioServer(servers.val[i])])

\* A loader that pairs what it can and drops a last field without partner.
_load_servers_from_site_partial(data) ==
    ServersOf(pairwise(SubSeq(Split(Slice(data, 3, Len(data))), 1,
                  2 * (Len(Split(Slice(data, 3, Len(data)))) \div 2))))

\* _load_servers_from_site with the text of the response in hand:
\* pairwise(data[2:].split('\x00')), one DiepioServer for each pair.
_load_servers_from_site(data) ==
    ServersOf(pairwise(Split(Slice(data, 3, Len(data)))))

\* The fields of a record as the site sends them.
Fields(server) == server.ip_port \o <<NUL>> \o server.name

\* The answers of the site: one record, four records, and an answer cut
\* after the address of its second record.
PayloadOne == <<"\n", "\n">> \o Fields(ServerFfa)
PayloadFull ==
    <<"\n", "\n">> \o Fields(ServerFfa) \o <<NUL>> \o Fields(ServerTdm)
        \o <<NUL>> \o Fields(ServerSandbox) \o <<NUL>> \o Fields(ServerMalformed)
PayloadCut ==
    <<"\n", "\n">> \o Fields(ServerTdm) \o <<NUL>> \o ServerSandbox.ip_port

Payloads == {PayloadOne, PayloadFull, PayloadCut}

\* The directories the site can answer with.
Directories ==
    {_load_servers_from_site(data).val :
        data \in {d \in Payloads : _load_servers_from_site(d).raised = "no"}}

\* A generated message names the links of its text and gives the roles of
\* its author.
Messages ==
    [links : UNION {[1..n -> LinkNames] : n \in 0..MaxLinks},
     roles : SUBSET Roles]

\* message.content: the links, each followed by a space.
RECURSIVE Content(_)
Content(links) ==
    IF links = <<>> THEN <<>>
    ELSE LinkText(Head(links)) \o <<" ">> \o Content(Tail(links))

\* PartyLinks.__init__: the default configuration (all_delete is not a key
\* of it, and config.get('all_delete') is then None, which is false), no
\* immune role, and the directory task created.
Init ==
    /\ op = Unused
    /\ inp = Unused
    /\ out = Unused
    /\ SERVER_LIST = Unset
    /\ task = "created"
    /\ pl_config = [detect |-> TRUE, delete |-> TRUE, tdm_delete |-> FALSE,
                    all_delete |-> FALSE]
    /\ pl_allowed = <<>>
    /\ last = [handler |-> "__init__"]
    /\ closed = FALSE
    /\ running_games = Unused
    /\ games = Unused
    /\ cog_aliases = Unused
    /\ cogs = Unused
    /\ custom_prefixes = Unused

\* _produce_server_list, line 34: the global is assigned when the loader
\* returned, and left alone when it raised.
Assigned(list, loaded) ==
    IF loaded.raised = "no" THEN Loaded(loaded.val) ELSE list

TaskAfter(loaded) == IF loaded.raised = "no" THEN "done" ELSE "failed"

\* _produce_server_list: the site answered.  The task does not touch the
\* global before the loader has returned the whole list.
ProduceServerList ==
    \E data \in Payloads :
        /\ task = "created"
        /\ SERVER_LIST' = Assigned(SERVER_LIST, _load_servers_from_site(data))
        /\ task' = TaskAfter(_load_servers_from_site(data))
        /\ last' = [handler |-> "_produce_server_list", data |-> Some(data)]
        /\ UNCHANGED <<codecVars, closed, gameVars, coreVars, pl_config, pl_allowed>>

\* A failed fetch after which the directory is empty.
ProduceServerListFails_clears ==
    /\ task = "created"
    /\ task' = "failed"
    /\ SERVER_LIST' = Loaded(<<>>)
    /\ last' = [handler |-> "_produce_server_list", data |-> None]
    /\ UNCHANGED <<codecVars, closed, gameVars, coreVars, pl_config, pl_allowed>>

\* _produce_server_list: the fetch raised; the task ends with the exception.
ProduceServerListFails ==
    /\ task = "created"
    /\ task' = "failed"
    /\ last' = [handler |-> "_produce_server_list", data |-> None]
    /\ UNCHANGED <<codecVars, closed, gameVars, coreVars, SERVER_LIST, pl_config, pl_allowed>>

\* The values SERVER_LIST, pl_config and pl_allowed take.
Lists == {Unset} \cup {Loaded(d) : d \in Directories}
Configs ==
    [detect : BOOLEAN, delete : BOOLEAN, tdm_delete : BOOLEAN,
     all_delete : BOOLEAN]
Alloweds == UNION {[1..n -> Roles] : n \in 0..MaxAllowed}

\* on_message is a function of the three and of the message: its results,
\* computed once.
HandledTable ==
    [l \in Lists |-> [c \in Configs |-> [a \in Alloweds |-> [m \in Messages |->
        on_message(l, c, a, [content |-> Content(m.links), roles |-> m.roles])]]]]

Handled == IF HandledTable = HandledTable THEN HandledTable ELSE <<>>

\* PartyLinks.on_message on a message of the guild
OnMessage ==
    \E message \in Messages :
        /\ last' = [handler |-> "on_message", message |-> message,
                    result |-> Handled[SERVER_LIST][pl_config][pl_allowed][message]]
        /\ UNCHANGED <<codecVars, closed, gameVars, coreVars, SERVER_LIST, task, pl_config, pl_allowed>>

Said(handler, reply) == [handler |-> handler, reply |-> reply]

\* partylinkset linkroleadd
LinkRoleAdd ==
    \E role \in Roles :
        /\ Len(pl_allowed) < MaxAllowed
        /\ pl_allowed' = Append(pl_allowed, role)
        /\ last' = Said("linkroleadd", "allowed")
        /\ UNCHANGED <<codecVars, closed, gameVars, coreVars, SERVER_LIST, task, pl_config>>

\* list.remove(x): the first occurrence removed
RECURSIVE ListRemove(_, _)
ListRemove(l, x) ==
    IF Head(l) = x THEN Tail(l) ELSE <<Head(l)>> \o ListRemove(Tail(l), x)

\* partylinkset linkroledelete
LinkRoleDelete ==
    \E role \in Roles :
        /\ IF \E i \in 1..Len(pl_allowed) : pl_allowed[i] = role
           THEN /\ pl_allowed' = ListRemove(pl_allowed, role)
                /\ last' = Said("linkroledelete", "disallowed")
           ELSE /\ pl_allowed' = pl_allowed
                /\ last' = Said("linkroledelete", "never allowed")
        /\ UNCHANGED <<codecVars, closed, gameVars, coreVars, SERVER_LIST, task, pl_config>>

\* partylinkset detect
SetDetect ==
    \E m \in BOOLEAN :
        /\ pl_config' = [pl_config EXCEPT !.detect = m]
        /\ last' = Said("detect", m)
        /\ UNCHANGED <<codecVars, closed, gameVars, coreVars, SERVER_LIST, task, pl_allowed>>

\* partylinkset delete
SetAllDelete ==
    \E m \in BOOLEAN :
        /\ pl_config' = [pl_config EXCEPT !.all_delete = m]
        /\ last' = Said("delete", m)
        /\ UNCHANGED <<codecVars, closed, gameVars, coreVars, SERVER_LIST, task, pl_allowed>>

\* partylinkset sbdelete
SetSbDelete ==
    \E m \in BOOLEAN :
        /\ pl_config' = [pl_config EXCEPT !.delete = m]
        /\ last' = Said("sbdelete", m)
        /\ UNCHANGED <<codecVars, closed, gameVars, coreVars, SERVER_LIST, task, pl_allowed>>

\* partylinkset tdmdelete
SetTdmDelete ==
    \E m \in BOOLEAN :
        /\ pl_config' = [pl_config EXCEPT !.tdm_delete = m]
        /\ last' = Said("tdmdelete", m)
        /\ UNCHANGED <<codecVars, closed, gameVars, coreVars, SERVER_LIST, task, pl_allowed>>

Next ==
    \/ ProduceServerList
    \/ ProduceServerListFails
    \/ OnMessage
    \/ LinkRoleAdd
    \/ LinkRoleDelete
    \/ SetDetect
    \/ SetAllDelete
    \/ SetSbDelete
    \/ SetTdmDelete

Spec == Init /\ [][Next]_vars

-----------------------------------------------------------------------------
(* Claims about the moderation of a message                                *)

\* Every step records itself in `last`, so in a state whose last step is
\* on_message the directory, the policy and the immune roles are the ones
\* the message was handled under.
Handling == last.handler = "on_message"

\* The author holds one of the immune roles.
AuthorImmune == \E i \in 1..Len(pl_allowed) : pl_allowed[i] \in last.message.roles

\* The candidates of the message handled, and the links among them that
\* resolve to a record of the directory (none while the directory cannot be
\* read).
Candidates == _extract_links(Content(last.message.links))

ResolvedIn(list, links) ==
    IF FirstRaised(ReadAll(list, links)).raised = "no"
    THEN Resolved(ReadAll(list, links))
    ELSE <<>>

\* The resolved links of every message under every directory, computed once.
ResolvedTable ==
    [l \in Lists |-> [ns \in UNION {[1..n -> LinkNames] : n \in 0..MaxLinks} |->
        ResolvedIn(l, _extract_links(Content(ns)))]]

ResolvedCache == IF ResolvedTable = ResolvedTable THEN ResolvedTable ELSE <<>>

LinksResolved == ResolvedCache[SERVER_LIST][last.message.links]

\* The record grammar as the specification states it: company-location,
\* both non-empty runs of lower-case letters, a colon, the code, a colon.
MatchesGrammar(name) ==
    /\ ServerMatch(name).match
    /\ ServerMatch(name).groups[1] # <<>>
    /\ ServerMatch(name).groups[2] # <<>>

RecordsWellFormed == \A i \in 1..Len(LinksResolved) : MatchesGrammar(LinksResolved[i].server.name)

\* The classification of a resolved link as the specification states it.
StatedTdm(d) == mode(d.server) \in {Returned(TDM2), Returned(TDM4)}
StatedSandbox(d) == mode(d.server) = Returned(Sandbox) \/ Len(d.code) \in {22, 24}

SomeTdm == \E i \in 1..Len(LinksResolved) : StatedTdm(LinksResolved[i])
SomeSandbox == \E i \in 1..Len(LinksResolved) : StatedSandbox(LinksResolved[i])

\* The detection notification: messages that carry embeds, and nothing else.
IsDetection(events) ==
    /\ events # <<>>
    /\ \A i \in 1..Len(events) : events[i].kind = "embed"

\* The ordered table: whether the events are those of its first matching rule.
FirstMatchingRule(events) ==
    IF pl_config.all_delete THEN events = <<Delete>>
    ELSE IF pl_config.tdm_delete /\ SomeTdm THEN events = <<Notice("tdm"), Delete>>
    ELSE IF pl_config.delete /\ SomeSandbox
    THEN events = <<Notice("sandbox"), Delete>>
    ELSE IF pl_config.detect THEN IsDetection(events)
    ELSE events = <<>>

\* C1: for every policy and every message that contains party links, if the
\* author is immune then handling the message produces no action at all: no
\* deletion, no notice, no detection notification.
C1_ImmuneAuthorNoAction ==
    (Handling /\ AuthorImmune /\ Candidates # <<>>)
        => (last.result.raised = "no" => last.result.events = <<>>)

\* C2: for a non-immune author and a non-empty list of resolved links (to
\* well-formed records), what on_message does is the first matching rule of
\* the ordered table, and nothing besides: all_delete, silent delete; else
\* tdm_delete and some TDM link, delete with the TDM notice; else delete and
\* some sandbox link, delete with the sandbox notice; else detect, the
\* detection notification; else nothing.
C2_FirstMatchingRule ==
    (Handling /\ ~AuthorImmune /\ LinksResolved # <<>> /\ RecordsWellFormed)
        => /\ last.result.raised = "no"
           /\ FirstMatchingRule(last.result.events)

\* C2's case: a message with a TDM link and a sandbox link, handled under
\* tdm_delete = delete = true, got the TDM notice.
C2_Witness ==
    /\ Handling
    /\ ~AuthorImmune
    /\ ~pl_config.all_delete /\ pl_config.tdm_delete /\ pl_config.delete
    /\ SomeTdm
    /\ SomeSandbox
    /\ last.result = Done(<<Notice("tdm"), Delete>>)

\* C3: under the policy all_delete on, delete off, tdm_delete off, detect
\* on, a message of a non-immune author with resolved links is deleted and
\* nothing is sent, also when one of the links is a sandbox link.
C3_AllDeleteIsSilent ==
    (/\ Handling
     /\ pl_config = [all_delete |-> TRUE, delete |-> FALSE,
                     tdm_delete |-> FALSE, detect |-> TRUE]
     /\ ~AuthorImmune
     /\ LinksResolved # <<>>)
        => last.result = Done(<<Delete>>)

\* C3's case: a message with a sandbox link was handled under that policy.
C3_Witness ==
    /\ Handling
    /\ pl_config = [all_delete |-> TRUE, delete |-> FALSE,
                    tdm_delete |-> FALSE, detect |-> TRUE]
    /\ ~AuthorImmune
    /\ SomeSandbox
    /\ last.result = Done(<<Delete>>)

\* A candidate that does not become a resolved link: its code is not a
\* valid one, or the loaded directory has no record at the address it
\* decodes to.
StatedValidCode(link) == StatedValid(SubSeq(link, Len(Url) + 1, Len(link)))

NotEvidence(link) ==
    \/ ~StatedValidCode(link)
    \/ /\ SERVER_LIST.set
       /\ read_link(SERVER_LIST, link) = Returned(None)

\* C4: for every policy, a message whose candidates are all either invalid
\* or without a directory record produces no action and raises no error.
C4_UnresolvedIsNoEvidence ==
    (Handling /\ Candidates # <<>>
        /\ \A i \in 1..Len(Candidates) : NotEvidence(Candidates[i]))
        => last.result = Done(<<>>)

\* C9: if the raw name of the record matched by a link of the message does
\* not match the record grammar, handling the message fails with a parse
\* error under every policy; it never completes with an action.
C9_MalformedRecordRaises ==
    (Handling /\ \E i \in 1..Len(LinksResolved) :
                    ~MatchesGrammar(LinksResolved[i].server.name))
        => last.result = AttributeError

-----------------------------------------------------------------------------
(* Claims about the directory and its refresh                              *)

\* A step of the refresh task, and what it fetched.
Refreshed == last.handler = "_produce_server_list"
Fetched == Refreshed /\ ~last.data.none

\* The number of separators of a text.
CountNul(s) == Cardinality({i \in 1..Len(s) : s[i] = NUL})

\* The number of fields of a payload once its 2-character prefix is
\* discarded: one more than it has separators.
StatedFieldCount(data) == CountNul(Slice(data, 3, Len(data))) + 1

\* The complete list of a payload: record i is made of fields 2i-1 and 2i.
StatedRecords(data) ==
    [i \in 1..(StatedFieldCount(data) \div 2) |->
        [ip_port |-> Split(Slice(data, 3, Len(data)))[2 * i - 1],
         name |-> Split(Slice(data, 3, Len(data)))[2 * i]]]

\* C11: if a directory refresh fails (the fetch raises), the active
\* snapshot is left exactly as it was: it is never cleared or partially
\* replaced, so every address resolves as it did before.
C11_FailedRefreshKeepsSnapshot ==
    [][(last'.handler = "_produce_server_list" /\ task' = "failed")
          => SERVER_LIST' = SERVER_LIST]_vars

\* C11's case: the fetch raised and the task ended with the exception.
C11_Witness == Refreshed /\ last.data.none /\ task = "failed"

C13_OddPayloadFailsWhole ==
    [][(last'.handler = "_produce_server_list" /\ ~last'.data.none
            /\ StatedFieldCount(last'.data.val) % 2 = 1)
          => (task' = "failed" /\ SERVER_LIST' = SERVER_LIST)]_vars

\* C13's case: a payload of three fields was fetched.
C13_Witness ==
    /\ Fetched
    /\ StatedFieldCount(last.data.val) = 3
    /\ task = "failed"

\* A refresh attempt, whatever its outcome.
RefreshAttempt == ProduceServerList \/ ProduceServerListFails

\* C14: refresh is periodic: after a refresh, failed or not, a later
\* refresh attempt is still to come.
C14_RefreshComesAgain ==
    task \in {"done", "failed"} => ENABLED RefreshAttempt

\* C15: a message with a valid code handled before the first refresh has
\* completed, or after the first refresh failed, is processed against an
\* empty directory: the lookup finds no record and the handler does not
\* raise.
C15_EmptyDirectoryFromStartup ==
    (/\ Handling
     /\ task \in {"created", "failed"}
     /\ \E i \in 1..Len(Candidates) : StatedValidCode(Candidates[i]))
        => last.result.raised = "no"

-----------------------------------------------------------------------------
(* Claims about the detection notification                                 *)

\* Whether the link named n resolves against the directory.
NameResolves(n) == ResolvedCache[SERVER_LIST][<<n>>] # <<>>

\* The codes of the links of the message that resolve, in the order the
\* links appear in its text.
CodeOfName(n) == SubSeq(LinkText(n), Len(Url) + 1, Len(LinkText(n)))

ResolvingNames == SelectSeq(last.message.links, NameResolves)

\* No delete rule of the table applies to the message.
NoDeleteRule ==
    /\ ~pl_config.all_delete
    /\ ~(pl_config.tdm_delete /\ SomeTdm)
    /\ ~(pl_config.delete /\ SomeSandbox)

IsEmbed(e) == e.kind = "embed"

\* C16: when no delete rule applies, detect is on, the author is not immune
\* and at least one link resolved, the detection notification carries every
\* resolved link of the message, once each, in the order of the text; when
\* detect is off or no link resolved, no notification is sent.
C16_DetectionCarriesEveryLink ==
    /\ (/\ Handling
        /\ ~AuthorImmune
        /\ LinksResolved # <<>>
        /\ RecordsWellFormed
        /\ NoDeleteRule
        /\ pl_config.detect)
          => /\ last.result.raised = "no"
             /\ Len(last.result.events) = Len(ResolvingNames)
             /\ \A i \in 1..Len(ResolvingNames) :
                    /\ last.result.events[i].kind = "embed"
                    /\ last.result.events[i].code = CodeOfName(ResolvingNames[i])
    /\ (/\ Handling
        /\ last.result.raised = "no"
        /\ (~pl_config.detect \/ LinksResolved = <<>>))
          => SelectSeq(last.result.events, IsEmbed) = <<>>

\* C16's case: a message with a sandbox link, then a TDM link, was handled
\* with both delete rules off and detect on, and two embeds were sent.
C16_Witness ==
    /\ Handling
    /\ ~AuthorImmune
    /\ NoDeleteRule
    /\ pl_config.detect
    /\ last.message.links = <<"sandbox", "tdm">>
    /\ Len(LinksResolved) = 2
    /\ Len(last.result.events) = 2

-----------------------------------------------------------------------------
(* The directory lookup under test                                         *)

\* The most records a generated directory holds.
MaxServers == 2

\* Records to look among: two of them at the same host on different ports,
\* and one whose host begins with the host of another.
LookupRecords ==
    {[ip_port |-> <<"1", ".", "2", ":", "8", "0">>, name |-> <<"a", "-", "b", ":", ":">>],
     [ip_port |-> <<"1", ".", "2", ":", "8", "1">>,
      name |-> <<"a", "-", "b", ":", "t", "e", "a", "m", "s", ":">>],
     [ip_port |-> <<"1", ".", "3", ":", "8", "0">>, name |-> <<"a", "-", "b", ":", ":">>],
     [ip_port |-> <<"1", ".", "2", "0", ":", "8", "0">>, name |-> <<"a", "-", "b", ":", ":">>]}

LookupAddrs ==
    {<<"1", ".", "2">>, <<"1", ".", "3">>, <<"1", ".", "2", "0">>, <<"1", ".">>,
     <<"1", ".", "2", ":", "8", "0">>}

LookupInit ==
    /\ op = "input"
    /\ inp \in [servers : UNION {[1..n -> LookupRecords] : n \in 0..MaxServers},
                addr : LookupAddrs]
    /\ out = Unused
    /\ BotUnused

\* _find_server_by_ip on a loaded directory
Lookup ==
    /\ op = "input"
    /\ op' = "_find_server_by_ip"
    /\ out' = _find_server_by_ip(Loaded(inp.servers), inp.addr)
    /\ UNCHANGED <<inp, botVars, closed, gameVars, coreVars>>

LookupNext == Lookup

SpecLookup == LookupInit /\ [][LookupNext]_vars

\* The records of the directory under test whose address is the one asked.
Matching == {i \in 1..Len(inp.servers) : ip(inp.servers[i]) = Returned(inp.addr)}

\* C21: lookup is an exact string match on the record's address: lookup(a)
\* returns a record only if its address equals a, addresses are unique
\* within a snapshot so that at most one record can match, and it returns
\* no record when none matches.
C21_LookupIsExactAndUnique ==
    op = "_find_server_by_ip" =>
        /\ out.raised = "no"
        /\ Cardinality(Matching) <= 1
        /\ (out.val.none <=> Matching = {})
        /\ (~out.val.none => ip(out.val.val) = Returned(inp.addr))

-----------------------------------------------------------------------------
(* Shutdown and the role commands                                          *)

\* The roles of the guild the role commands are given, and the most entries
\* the list of allowed roles grows to.
AdminRoles == {"r1", "r2"}
MaxAdminAllowed == 3

\* Chiaki.close, lines 186-189: the session and the database are closed and
\* _game_task is cancelled.  The task PartyLinks.__init__ created (line 173)
\* is kept nowhere and is not cancelled: it stays as it was.
Close ==
    /\ ~closed
    /\ closed' = TRUE
    /\ last' = [handler |-> "close"]
    /\ UNCHANGED <<codecVars, gameVars, coreVars, SERVER_LIST, task, pl_config, pl_allowed>>

\* partylinkset linkroleadd role
linkroleadd(role) ==
    /\ Len(pl_allowed) < MaxAdminAllowed
    /\ pl_allowed' = Append(pl_allowed, role)
    /\ last' = [handler |-> "linkroleadd", role |-> role, reply |-> "allowed"]
    /\ UNCHANGED <<codecVars, closed, gameVars, coreVars, SERVER_LIST, task, pl_config>>

\* partylinkset linkroledelete role
linkroledelete(role) ==
    /\ IF \E i \in 1..Len(pl_allowed) : pl_allowed[i] = role
       THEN /\ pl_allowed' = ListRemove(pl_allowed, role)
            /\ last' = [handler |-> "linkroledelete", role |-> role,
                        reply |-> "disallowed"]
       ELSE /\ pl_allowed' = pl_allowed
            /\ last' = [handler |-> "linkroledelete", role |-> role,
                        reply |-> "never allowed"]
    /\ UNCHANGED <<codecVars, closed, gameVars, coreVars, SERVER_LIST, task, pl_config>>

AdminNext ==
    \/ ProduceServerList
    \/ ProduceServerListFails
    \/ Close
    \/ \E role \in AdminRoles : linkroleadd(role)
    \/ \E role \in AdminRoles : linkroledelete(role)

SpecAdmin == Init /\ [][AdminNext]_vars

\* C22: on shutdown a pending or in-progress directory refresh is
\* cancelled: after shutdown no refresh completes and the snapshot is never
\* replaced again.
C22_NoRefreshAfterShutdown ==
    [][closed => (task' = task /\ SERVER_LIST' = SERVER_LIST)]_vars

\* C28: a role confers immunity exactly when it was added and not
\* successfully deleted since: once linkroledelete(role) reports success, a
\* member whose only immune role was that role is no longer immune, even if
\* the role had been added more than once.
C28_DeletedRoleIsNotImmune ==
    (last.handler = "linkroledelete" /\ last.reply = "disallowed") =>
        ~_is_immune(pl_allowed, [roles |-> {last.role}])

-----------------------------------------------------------------------------
(* Messages whose sends and deletions can fail                             *)

\* A handler that goes on after the call that raised.
Interrupted_continues(result, k) ==
    [raised |-> "HTTPException",
     events |-> SubSeq(result.events, 1, k - 1)
                \o SubSeq(result.events, k + 1, Len(result.events))]

\* on_message and _handle_delete await send_message and delete_message
\* (lines 186, 187, 216, 219) inside no try: when the k-th of these calls
\* raises, the calls before it have taken effect and none after it is made.
Interrupted(result, k) ==
    [raised |-> "HTTPException", events |-> SubSeq(result.events, 1, k - 1)]

\* What on_message does to the message under the present directory, policy
\* and immune roles when nothing fails.
Unfailing(message) == Handled[SERVER_LIST][pl_config][pl_allowed][message]

\* PartyLinks.on_message on a message of the guild, the k-th call to Discord
\* failing.
OnMessageFails ==
    \E message \in Messages :
        /\ Unfailing(message).raised = "no"
        /\ \E k \in 1..Len(Unfailing(message).events) :
            last' = [handler |-> "on_message", message |-> message,
                     attempted |-> Unfailing(message).events[k],
                     result |-> Interrupted(Unfailing(message), k)]
        /\ UNCHANGED <<codecVars, closed, gameVars, coreVars, SERVER_LIST, task, pl_config, pl_allowed>>

DeliveryNext == Next \/ OnMessageFails

SpecDelivery == Init /\ [][DeliveryNext]_vars

\* The handler ran to its end or to a failed call to Discord.
Delivered == Handling /\ last.result.raised \in {"no", "HTTPException"}

Deletions == {i \in 1..Len(last.result.events) : last.result.events[i] = Delete}

Sends == {i \in 1..Len(last.result.events) : last.result.events[i] # Delete}

NoticeFailed == "attempted" \in DOMAIN last /\ last.attempted.kind = "notice"

\* C27: for a delete-with-notice action the notice is sent to the channel
\* before the offending message is deleted, and the message is deleted at
\* most once per handled message; for a silent delete no message is sent at
\* all; if sending the notice fails, the message is not deleted.
C27_NoticeThenOneDelete ==
    Delivered =>
        /\ Cardinality(Deletions) <= 1
        /\ pl_config.all_delete => Sends = {}
        /\ (~pl_config.all_delete /\ Deletions # {}) =>
               /\ Len(last.result.events) = 2
               /\ last.result.events[1].kind = "notice"
               /\ Deletions = {2}
        /\ NoticeFailed => Deletions = {}

\* The notice of a deletion could not be sent.
C27_Witness == Delivered /\ NoticeFailed /\ last.result.events = <<>>

-----------------------------------------------------------------------------
(* Two-player games: TwoPlayerGameCog of cogs/games/bases.py               *)

\* The most invocations of the game command in flight at once; an invocation
\* that has ended leaves its place to a later one.
MaxGames == 2

Members == {"a", "b", "c"}
Channels == {"ch"}
Invocations == 1..MaxGames

\* A confirm that lets the creator of the game join it.
confirm_creator(waiter, member) ==
    IF waiter.recipient = None
    THEN [raised |-> "no", message |-> "none",
          waiter |-> [waiter EXCEPT !.recipient = Some(member), !.event = TRUE]]
    ELSE IF Some(member) # waiter.recipient
    THEN [raised |-> "RuntimeError", message |-> "not for you", waiter |-> waiter]
    ELSE [raised |-> "no", message |-> "none",
          waiter |-> [waiter EXCEPT !.event = TRUE]]

\* A confirm in which the last member to join becomes the opponent.
confirm_last(waiter, member) ==
    IF waiter.author = member
    THEN [raised |-> "RuntimeError", message |-> "creator", waiter |-> waiter]
    ELSE [raised |-> "no", message |-> "none",
          waiter |-> [waiter EXCEPT !.recipient = Some(member), !.event = TRUE]]

\* _TwoPlayerWaiter.confirm: the waiter after the call, or the RuntimeError
\* it raised.
confirm(waiter, member) ==
    IF waiter.author = member
    THEN [raised |-> "RuntimeError", message |-> "creator", waiter |-> waiter]
    ELSE IF waiter.recipient = None
    THEN [raised |-> "no", message |-> "none",
          waiter |-> [waiter EXCEPT !.recipient = Some(member), !.event = TRUE]]
    ELSE IF Some(member) # waiter.recipient
    THEN [raised |-> "RuntimeError", message |-> "not for you", waiter |-> waiter]
    ELSE [raised |-> "no", message |-> "none",
          waiter |-> [waiter EXCEPT !.event = TRUE]]

\* _swap_item, line 45: obj[item] = new_val
_swap_item_enter(obj, item, new_val) ==
    [k \in DOMAIN obj \cup {item} |-> IF k = item THEN new_val ELSE obj[k]]

\* A context manager that leaves the item in place when it exits.
_swap_item_keeps(obj, item) == obj

\* _swap_item, lines 48-50: the item is deleted if it is there, whoever put it
_swap_item_exit(obj, item) == [k \in DOMAIN obj \ {item} |-> obj[k]]

\* An invocation that is not in flight: none yet, or one that has returned.
Over == [pc |-> "idle"]

WaiterOf(i) == [kind |-> "waiter", id |-> i]
GameOf(i) == [kind |-> "game", id |-> i]

\* TwoPlayerGameCog.__init__, with no command invoked yet
GamesInit ==
    /\ op = Unused /\ inp = Unused /\ out = Unused
    /\ SERVER_LIST = Unused /\ task = Unused
    /\ pl_config = Unused /\ pl_allowed = Unused
    /\ closed = FALSE
    /\ cog_aliases = Unused /\ cogs = Unused /\ custom_prefixes = Unused
    /\ running_games = <<>>
    /\ games = [i \in Invocations |-> Over]
    /\ last = [handler |-> "__init__"]

GamesUnchanged ==
    UNCHANGED <<codecVars, SERVER_LIST, task, pl_config, pl_allowed, closed, coreVars>>

\* _game, lines 151-156: the check of running_games, then the invitation is
\* being sent.  member is None or a member other than the author (the
\* converter of line 71 refuses the author).
Game(i) ==
    \E author \in Members, channel \in Channels :
    \E member \in {None} \cup {Some(m) : m \in Members \ {author}} :
        /\ games[i].pc = "idle"
        /\ IF i = 1 THEN TRUE ELSE games[i - 1].pc # "idle"
        /\ games' = IF channel \in DOMAIN running_games THEN games
                     ELSE [games EXCEPT ![i] =
                              [pc |-> "inviting", author |-> author,
                               member |-> member, recipient |-> member,
                               event |-> FALSE, channel |-> channel]]
        /\ last' = [handler |-> "_game", id |-> i, channel |-> channel,
                    reply |-> IF channel \in DOMAIN running_games
                              THEN "already running" ELSE "invite"]
        /\ UNCHANGED running_games
        /\ GamesUnchanged

\* _game, lines 156-159: the invitation is sent, the waiter is put in
\* running_games and awaited.
InviteSent(i) ==
    /\ games[i].pc = "inviting"
    /\ running_games' = _swap_item_enter(running_games, games[i].channel, WaiterOf(i))
    /\ games' = [games EXCEPT ![i].pc = "waiting"]
    /\ last' = [handler |-> "_game", id |-> i, channel |-> games[i].channel,
                reply |-> "waiting"]
    /\ GamesUnchanged

\* _game, line 156: sending the invitation raised
InviteFails(i) ==
    /\ games[i].pc = "inviting"
    /\ games' = [games EXCEPT ![i] = Over]
    /\ last' = [handler |-> "_game", id |-> i, channel |-> games[i].channel,
                reply |-> "HTTPException"]
    /\ UNCHANGED running_games
    /\ GamesUnchanged

\* _game_join, lines 175-180, on the waiter of invocation i
JoinWaiter(i, member, channel) ==
    /\ games' = [games EXCEPT ![i] = confirm(games[i], member).waiter]
    /\ last' = [handler |-> "_game_join", member |-> member, channel |-> channel,
                reply |-> IF confirm(games[i], member).raised = "no"
                          THEN "good luck"
                          ELSE confirm(games[i], member).message]

\* _game_join
GameJoin ==
    \E member \in Members, channel \in Channels :
        /\ IF channel \notin DOMAIN running_games
           THEN /\ last' = [handler |-> "_game_join", member |-> member,
                            channel |-> channel, reply |-> "no game"]
                /\ UNCHANGED games
           ELSE IF running_games[channel].kind # "waiter"
           THEN /\ last' = [handler |-> "_game_join", member |-> member,
                            channel |-> channel, reply |-> "late"]
                /\ UNCHANGED games
           ELSE JoinWaiter(running_games[channel].id, member, channel)
        /\ UNCHANGED running_games
        /\ GamesUnchanged

\* _game, lines 159-163: the wait is over, the first with block is left and
\* the game instance is put in running_games and run.
WaitDone(i) ==
    /\ games[i].pc = "waiting"
    /\ games[i].event
    /\ running_games' =
           _swap_item_enter(_swap_item_exit(running_games, games[i].channel),
                            games[i].channel, GameOf(i))
    /\ games' = [games EXCEPT ![i].pc = "playing"]
    /\ last' = [handler |-> "_game", id |-> i, channel |-> games[i].channel,
                reply |-> "playing"]
    /\ GamesUnchanged

\* _game, line 159: nobody joined within the timeout of line 24 and wait_for
\* raised; the with block is left by the exception.
WaitRaises(i) ==
    /\ games[i].pc = "waiting"
    /\ ~games[i].event
    /\ running_games' = _swap_item_exit(running_games, games[i].channel)
    /\ games' = [games EXCEPT ![i] = Over]
    /\ last' = [handler |-> "_game", id |-> i, channel |-> games[i].channel,
                reply |-> "TimeoutError"]
    /\ GamesUnchanged

\* _game, lines 163-165: the game has run to its end
RunDone(i) ==
    /\ games[i].pc = "playing"
    /\ running_games' = _swap_item_exit(running_games, games[i].channel)
    /\ games' = [games EXCEPT ![i] = Over]
    /\ last' = [handler |-> "_game", id |-> i, channel |-> games[i].channel,
                reply |-> "result"]
    /\ GamesUnchanged

\* _game, line 163: the run of the game raised
RunRaises(i) ==
    /\ games[i].pc = "playing"
    /\ running_games' = _swap_item_exit(running_games, games[i].channel)
    /\ games' = [games EXCEPT ![i] = Over]
    /\ last' = [handler |-> "_game", id |-> i, channel |-> games[i].channel,
                reply |-> "Exception"]
    /\ GamesUnchanged

GamesNext ==
    \/ \E i \in Invocations : Game(i)
    \/ \E i \in Invocations : InviteSent(i)
    \/ \E i \in Invocations : InviteFails(i)
    \/ GameJoin
    \/ \E i \in Invocations : WaitDone(i)
    \/ \E i \in Invocations : WaitRaises(i)
    \/ \E i \in Invocations : RunDone(i)
    \/ \E i \in Invocations : RunRaises(i)

SpecGames == GamesInit /\ [][GamesNext]_vars

\* Invocation i has started and not ended: its invitation is being sent, it
\* waits for a join, or its game is being played.
Started(i) == games[i].pc \in {"inviting", "waiting", "playing"}

\* The step is the game command being issued.
Issued == last'.handler = "_game" /\ last'.reply \in {"invite", "already running"}

\* The step is a step of invocation i itself.
StepOf(i) == games'[i].pc # games[i].pc

\* The entry of a channel is left as it is, or the step is its owner's.
EntryKept(channel) ==
    \/ /\ channel \in DOMAIN running_games'
       /\ running_games'[channel] = running_games[channel]
    \/ StepOf(running_games[channel].id)

\* C23: two-player games are mutually exclusive per channel under any
\* interleaving: a game command issued in a channel while another invocation
\* for that channel has started (invite being sent, waiting for a join, or
\* playing) is rejected with the 'already running' reply, and the
\* running_games entry of the earlier invocation is never overwritten or
\* deleted by another invocation.
C23_GamesMutuallyExclusive ==
    [][/\ (Issued /\ \E j \in Invocations :
                 Started(j) /\ games[j].channel = last'.channel)
            => last'.reply = "already running"
       /\ \A channel \in DOMAIN running_games : EntryKept(channel)]_vars

\* The step ends invocation i: its game finished, its wait raised or its run
\* raised.
Ends(i) ==
    /\ games[i].pc \in {"waiting", "playing"}
    /\ games'[i] = Over

\* The last step ended an invocation.
Ended == last.handler = "_game" /\ last.reply \in {"result", "TimeoutError", "Exception"}

\* C24: every way a game invocation can end (game finished, nobody joined
\* before the waiter's timeout, or an exception in the wait or in the game
\* run) leaves no entry for its channel in running_games, so a later game
\* command in that channel is accepted.
C24_EndingLeavesNoEntry ==
    [][/\ \A i \in Invocations :
            Ends(i) => games[i].channel \notin DOMAIN running_games'
       /\ (Ended /\ Issued /\ last'.channel = last.channel)
            => /\ last'.reply = "invite"
               /\ games'[last'.id].pc = "inviting"]_vars

\* Nobody joined a game in time, and its channel has no entry.
C24_Witness ==
    /\ Ended
    /\ last.reply = "TimeoutError"
    /\ last.channel \notin DOMAIN running_games

\* A game instance was created for invocation i.
Created(i) == games[i].pc = "playing"

\* The step is a join by a member that a waiter in the channel does not
\* accept: its creator, or a member other than the one it is for.
Unwelcome(i) ==
    /\ last'.handler = "_game_join"
    /\ last' # last
    /\ last'.channel \in DOMAIN running_games
    /\ running_games[last'.channel] = WaiterOf(i)
    /\ \/ last'.member = games[i].author
       \/ games[i].member # None /\ games[i].member # Some(last'.member)

\* C25: a game instance is only ever created after a successful join, with
\* an opponent different from the game's creator; for an invitation
\* addressed to a specific member the opponent is that member, and a join
\* attempt by the creator or by any other member is refused with an error
\* and does not start the game.
C25_GameOnlyAfterJoin ==
    /\ [](\A i \in Invocations : Created(i) =>
            /\ games[i].event
            /\ games[i].recipient # None
            /\ games[i].recipient # Some(games[i].author)
            /\ games[i].member # None => games[i].recipient = games[i].member)
    /\ [][\A i \in Invocations : Unwelcome(i) =>
            /\ last'.reply \in {"creator", "not for you"}
            /\ games' = games
            /\ running_games' = running_games]_vars

\* The game of an invitation was created, with the invited member.
C25_Witness ==
    /\ Created(1)
    /\ games[1].member # None
    /\ games[1].recipient = games[1].member

\* The step is a join command handled in a channel.
Joins == last'.handler = "_game_join" /\ last' # last

\* The step is a join command that finds the waiter of the open game i.
JoinsOpen(i) ==
    /\ Joins
    /\ last'.channel \in DOMAIN running_games
    /\ running_games[last'.channel] = WaiterOf(i)
    /\ games[i].member = None

\* The step is a join command that finds a game instance.
JoinsLate ==
    /\ Joins
    /\ last'.channel \in DOMAIN running_games
    /\ running_games[last'.channel].kind = "game"

\* The first member other than the creator who joins the open game i becomes
\* its opponent.
FirstJoinerIsOpponent(i) ==
    (JoinsOpen(i) /\ games[i].recipient = None /\ last'.member # games[i].author)
        => games'[i].recipient = Some(last'.member)

\* The opponent of the open game i, once there is one, stays as long as the
\* invocation lasts.
OpponentStays(i) ==
    (/\ games[i] # Over
     /\ games'[i] # Over
     /\ games[i].member = None
     /\ games[i].recipient # None)
        => games'[i].recipient = games[i].recipient

\* A join that finds a game instance is answered 'late' and changes nothing.
LateChangesNothing ==
    JoinsLate =>
        last'.reply = "late" /\ games' = games /\ running_games' = running_games

\* C26, as stated: for an open game the first member other than the creator
\* who joins becomes the opponent, and from then on the opponent never
\* changes: every later join by a different member, in any order before the
\* game starts, is refused with 'This game is not for you!', and a join
\* arriving after the waiter was replaced by the game instance gets the
\* 'late' reply and changes nothing.
C26_LaterJoinsNotForYou ==
    [][/\ \A i \in Invocations :
            /\ FirstJoinerIsOpponent(i)
            /\ OpponentStays(i)
            /\ (JoinsOpen(i) /\ games[i].recipient \notin {None, Some(last'.member)})
                   => (last'.reply = "not for you" /\ games' = games)
       /\ LateChangesNothing]_vars

\* C26, amended: as stated, except that a later join by the creator is
\* refused with the reply to creators, and only a later join by a member
\* other than the creator and the opponent with 'This game is not for you!'.
C26_LaterJoinsRefused ==
    [][/\ \A i \in Invocations :
            /\ FirstJoinerIsOpponent(i)
            /\ OpponentStays(i)
            /\ (JoinsOpen(i) /\ games[i].recipient \notin {None, Some(last'.member)})
                   => /\ games' = games
                      /\ last'.reply = IF last'.member = games[i].author
                                       THEN "creator" ELSE "not for you"
       /\ LateChangesNothing]_vars

\* An open game has its opponent and a third member's join was refused.
C26_Witness ==
    /\ games[1].pc = "waiting"
    /\ games[1].member = None
    /\ games[1].recipient # None
    /\ last.handler = "_game_join"
    /\ last.reply = "not for you"

-----------------------------------------------------------------------------
(* Cogs and their aliases: Chiaki.add_cog and Chiaki.remove_cog            *)

\* str.lower() on one character and on a string
LowerOf(c) ==
    IF \E l \in LowerAZ : UpperOf(l) = c
    THEN CHOOSE l \in LowerAZ : UpperOf(l) = c
    ELSE c

lower(s) == [i \in 1..Len(s) |-> LowerOf(s[i])]

\* d[k] = v and del d[k] on a dict
DictSet(d, k, v) == [x \in DOMAIN d \cup {k} |-> IF x = k THEN v ELSE d[x]]
DictDel(d, k) == [x \in DOMAIN d \ {k} |-> d[x]]

\* The objects handed to add_cog: cogs with the name of their class and
\* their aliases, and an object that is no Cog.
CogObjects ==
    {[id |-> "fun", is_cog |-> TRUE, name |-> <<"F", "n">>,
      aliases |-> << <<"g", "m">> >>],
     [id |-> "meta", is_cog |-> TRUE, name |-> <<"M", "t">>,
      aliases |-> << <<"i", "n">>, <<"g", "m">> >>],
     [id |-> "play", is_cog |-> TRUE, name |-> <<"P", "l">>,
      aliases |-> << <<"G", "m">> >>],
     [id |-> "misc", is_cog |-> TRUE, name |-> <<"M", "s">>, aliases |-> <<>>],
     [id |-> "task", is_cog |-> FALSE, name |-> <<"T", "k">>, aliases |-> <<>>]}

\* The names remove_cog is called with.
CogNames == {<<"F", "n">>, <<"m", "t">>, <<"P", "L">>, <<"m", "s">>, <<"n", "o">>}

\* add_cog, lines 197-200: the aliases registered one after the other, up to
\* the first that is already a key of cog_aliases
RECURSIVE RegisterAliases(_, _, _)
RegisterAliases(aliases, cog, rest) ==
    IF rest = <<>> THEN [raised |-> "no", cog_aliases |-> aliases]
    ELSE IF Head(rest) \in DOMAIN aliases
    THEN [raised |-> "ClientException", cog_aliases |-> aliases]
    ELSE RegisterAliases(DictSet(aliases, lower(Head(rest)), cog.id), cog, Tail(rest))

\* add_cog, lines 202-204, registered the outcome of the loop over the
\* aliases: the cog is stored under the name of its class, then moved to the
\* lowered name and entered in cog_aliases under it.
AddNamed(registered, all_cogs, cog) ==
    IF registered.raised # "no"
    THEN [raised |-> registered.raised, cog_aliases |-> registered.cog_aliases,
          cogs |-> all_cogs]
    ELSE [raised |-> "no",
          cog_aliases |-> DictSet(registered.cog_aliases, lower(cog.name), cog.id),
          cogs |-> DictSet(DictDel(DictSet(all_cogs, cog.name, cog.id), cog.name),
                           lower(cog.name), cog.id)]

\* Chiaki.add_cog
add_cog(aliases, all_cogs, cog) ==
    IF ~cog.is_cog
    THEN [raised |-> "ClientException", cog_aliases |-> aliases, cogs |-> all_cogs]
    ELSE AddNamed(RegisterAliases(aliases, cog, cog.aliases), all_cogs, cog)

\* Chiaki.remove_cog, on the lowered name
RemoveLowered(aliases, all_cogs, lowered) ==
    IF lowered \notin DOMAIN all_cogs
    THEN [cog_aliases |-> aliases, cogs |-> all_cogs]
    ELSE [cog_aliases |->
              [k \in {a \in DOMAIN aliases : aliases[a] # all_cogs[lowered]} |->
                  aliases[k]],
          cogs |-> DictDel(all_cogs, lowered)]

\* Chiaki.remove_cog
remove_cog(aliases, all_cogs, name) == RemoveLowered(aliases, all_cogs, lower(name))

\* Chiaki.__init__, line 128, with no extension loaded
CogsInit ==
    /\ op = Unused /\ inp = Unused /\ out = Unused
    /\ SERVER_LIST = Unused /\ task = Unused
    /\ pl_config = Unused /\ pl_allowed = Unused
    /\ closed = FALSE
    /\ running_games = Unused /\ games = Unused
    /\ custom_prefixes = Unused
    /\ cog_aliases = <<>>
    /\ cogs = <<>>
    /\ last = [handler |-> "__init__"]

CogsUnchanged ==
    UNCHANGED <<codecVars, SERVER_LIST, task, pl_config, pl_allowed, closed,
                gameVars, custom_prefixes>>

AddCog ==
    \E cog \in CogObjects :
        /\ cog_aliases' = add_cog(cog_aliases, cogs, cog).cog_aliases
        /\ cogs' = add_cog(cog_aliases, cogs, cog).cogs
        /\ last' = [handler |-> "add_cog", cog |-> cog.id,
                    raised |-> add_cog(cog_aliases, cogs, cog).raised,
                    before |-> [cog_aliases |-> cog_aliases, cogs |-> cogs]]
        /\ CogsUnchanged

RemoveCog ==
    \E name \in CogNames :
        /\ cog_aliases' = remove_cog(cog_aliases, cogs, name).cog_aliases
        /\ cogs' = remove_cog(cog_aliases, cogs, name).cogs
        /\ last' = [handler |-> "remove_cog", name |-> name]
        /\ CogsUnchanged

CogsNext == AddCog \/ RemoveCog

SpecCogs == CogsInit /\ [][CogsNext]_vars

\* C29: add_cog is all-or-nothing: if it raises because one of the cog's
\* aliases is already registered (or the object is not a Cog), cog_aliases
\* and cogs are exactly as before the call; and an alias that is already
\* registered under any letter case is detected as a conflict, so no
\* existing alias entry is ever silently re-pointed to a different cog.
C29_AddCogAllOrNothing ==
    last.handler = "add_cog" =>
        /\ last.raised # "no" =>
               cog_aliases = last.before.cog_aliases /\ cogs = last.before.cogs
        /\ \A alias \in DOMAIN last.before.cog_aliases :
               /\ alias \in DOMAIN cog_aliases
               /\ cog_aliases[alias] = last.before.cog_aliases[alias]

-----------------------------------------------------------------------------
(* Custom prefixes: Chiaki.set_guild_prefixes                              *)

\* The most prefixes a call may give (line 295).
TooManyPrefixes == 10

\* The most prefixes a generated call repeats after its distinct ones.
MaxRepeated == 2

Guilds == {"g1", "g2"}

\* ord(c) for the characters of the generated prefixes
Ord(c) ==
    CASE c = "!" -> 33 [] c = "$" -> 36 [] c = "-" -> 45 [] c = "." -> 46
      [] c = ">" -> 62 [] c = "?" -> 63 [] c = "a" -> 97 [] c = "~" -> 126

\* a < b on strings: the order sorted() puts them in
RECURSIVE StrLess(_, _)
StrLess(a, b) ==
    IF b = <<>> THEN FALSE
    ELSE IF a = <<>> THEN TRUE
    ELSE IF Ord(Head(a)) # Ord(Head(b)) THEN Ord(Head(a)) < Ord(Head(b))
    ELSE StrLess(Tail(a), Tail(b))

\* set(prefixes)
SetOf(l) == {l[i] : i \in 1..Len(l)}

Greatest(S) == CHOOSE x \in S : \A y \in S \ {x} : StrLess(y, x)

\* sorted(S, reverse=True)
RECURSIVE sorted_reverse(_)
sorted_reverse(S) ==
    IF S = {} THEN <<>>
    ELSE <<Greatest(S)>> \o sorted_reverse(S \ {Greatest(S)})

\* JSONFile.put(key, value): the value is stored under the key
put(file, key, value) == DictSet(file, key, value)

\* Distinct prefixes, in no order, one more than a call may give.
DistinctPrefixes ==
    << <<"?">>, <<"!">>, <<"a">>, <<"!", "!">>, <<"-", ">">>, <<"$">>, <<".">>,
       <<"~">>, <<"a", "!">>, <<">">>, <<"?", "!">> >>

\* The arguments of the generated calls: None, or the first k of the
\* distinct prefixes followed by some of them again.
PrefixLists ==
    {None} \cup
    {Some(SubSeq(DistinctPrefixes, 1, k) \o again) :
        k \in 0..Len(DistinctPrefixes),
        again \in UNION {[1..n -> {DistinctPrefixes[1], DistinctPrefixes[4]}] :
                            n \in 0..MaxRepeated}}

\* A call that accepts however many prefixes it is given.
Checked_unlimited(prefixes) ==
    [raised |-> "no", value |-> sorted_reverse(SetOf(prefixes))]

\* set_guild_prefixes, lines 295-298, prefixes the list of line 294: the
\* error, or the value that is put
Checked(prefixes) ==
    IF Len(prefixes) > TooManyPrefixes THEN [raised |-> "RuntimeError"]
    ELSE [raised |-> "no", value |-> sorted_reverse(SetOf(prefixes))]

\* Line 294, prefixes = prefixes or [], and the lines after it for every
\* generated argument, computed once.
CheckedTable ==
    [prefixes \in PrefixLists |->
        Checked(IF prefixes = None THEN <<>> ELSE prefixes.val)]

CheckedCache == IF CheckedTable = CheckedTable THEN CheckedTable ELSE <<>>

\* Chiaki.set_guild_prefixes
set_guild_prefixes(file, guild, prefixes) ==
    IF CheckedCache[prefixes].raised # "no"
    THEN [raised |-> CheckedCache[prefixes].raised, custom_prefixes |-> file]
    ELSE [raised |-> "no",
          custom_prefixes |-> put(file, guild, CheckedCache[prefixes].value)]

\* Chiaki.__init__, line 127, with no prefixes stored
PrefixesInit ==
    /\ op = Unused /\ inp = Unused /\ out = Unused
    /\ SERVER_LIST = Unused /\ task = Unused
    /\ pl_config = Unused /\ pl_allowed = Unused
    /\ closed = FALSE
    /\ running_games = Unused /\ games = Unused
    /\ cog_aliases = Unused /\ cogs = Unused
    /\ custom_prefixes = <<>>
    /\ last = [handler |-> "__init__"]

Given(prefixes) == IF prefixes = None THEN 0 ELSE Len(prefixes.val)

SetGuildPrefixes ==
    \E guild \in Guilds, prefixes \in PrefixLists :
        /\ custom_prefixes' =
               set_guild_prefixes(custom_prefixes, guild, prefixes).custom_prefixes
        /\ last' = [handler |-> "set_guild_prefixes", guild |-> guild,
                    given |-> Given(prefixes),
                    raised |-> set_guild_prefixes(custom_prefixes, guild, prefixes).raised]
        /\ UNCHANGED <<codecVars, SERVER_LIST, task, pl_config, pl_allowed, closed,
                       gameVars, cog_aliases, cogs>>

PrefixesNext == SetGuildPrefixes

SpecPrefixes == PrefixesInit /\ [][PrefixesNext]_vars

\* The list has no entry twice and every entry is less than the one before.
Descending(l) == \A i, j \in 1..Len(l) : i < j => StrLess(l[j], l[i])

\* C30: after any sequence of set_guild_prefixes calls, the stored custom
\* prefix list of a guild has at most 10 entries, contains no duplicates and
\* is sorted in descending order; a call with more than 10 prefixes raises
\* an error and leaves the guild's stored prefixes unchanged.
C30_StoredPrefixesBounded ==
    /\ [](\A guild \in DOMAIN custom_prefixes :
            /\ Len(custom_prefixes[guild]) <= 10
            /\ Descending(custom_prefixes[guild]))
    /\ [][(last'.handler = "set_guild_prefixes" /\ last'.given > 10) =>
             /\ last'.raised = "RuntimeError"
             /\ custom_prefixes' = custom_prefixes]_vars

\* A guild has ten prefixes stored and a call with more was refused.
C30_Witness ==
    /\ last.handler = "set_guild_prefixes"
    /\ last.raised = "RuntimeError"
    /\ last.guild \in DOMAIN custom_prefixes
    /\ Len(custom_prefixes[last.guild]) = 10

=============================================================================
